---------------------------- MODULE Spec2Model ----------------------------
(***************************************************************************)
(* Matching pipeline of Substrate: the lexical CapabilityMatcher           *)
(* (cloud/matching/engine.py) and the embedding based SemanticMatcher      *)
(* (cloud/matching/semantic_engine.py).                                    *)
(*                                                                         *)
(* Floats are fixed-point integers with ONE standing for 1.0; a product    *)
(* x * w of two floats is (x * w) \div ONE and a quotient a / b is         *)
(* (a * ONE) \div b.  Strings that the code splits on whitespace are       *)
(* sequences of words.  Objects (profiles, capabilities, needs) are named  *)
(* by strings and looked up in the tables Capability, UserProfile, Need.   *)
(***************************************************************************)
EXTENDS Integers, Sequences, FiniteSets, TLC

VARIABLES
    engine,               \* which matcher class was constructed
    EMBEDDINGS_AVAILABLE, \* semantic_engine.py module flag (import succeeded)
    config,               \* self.config
    capability_index,     \* CapabilityMatcher.capability_index (key -> postings)
    memory_capabilities,  \* SemanticMatcher.memory_capabilities
    match_history,        \* self.match_history
    success_patterns,     \* CapabilityMatcher.success_patterns
    outcome_log,          \* the success argument of each learn_from_outcome call
    index_log,            \* the profile argument of each index_user_profile call
    last_op,              \* the operation that completed last
    last_call,            \* arguments, locals and return value of the last find_matches
    db,                   \* the tables of api.py's SubstrateDatabase
    profile_cache,        \* api.py profile_cache (user_id -> profile)
    response,             \* the request api.py handled last and how it ended
    request_count,        \* number of requests and database calls handled
    explanation,          \* the last TransparencyEngine call and what it returned
    threads,              \* each thread's position and locals in learn_from_outcome
    users,                \* AuthenticationSystem.users (user_id -> User)
    sessions,             \* AuthenticationSystem.sessions (session_id -> Session)
    login_attempts,       \* AuthenticationSystem.login_attempts (email -> timestamps)
    clock,                \* datetime.utcnow(), in units of five minutes since import
    auth_return           \* the last AuthenticationSystem call and what it returned

\* the state outside the matcher's fields
\* the fields of security/authentication.py's AuthenticationSystem
auth_vars == <<users, sessions, login_attempts, clock, auth_return>>

service_vars == <<db, profile_cache, response, request_count, explanation, threads,
                  auth_vars>>

vars == <<engine, EMBEDDINGS_AVAILABLE, config, capability_index,
          memory_capabilities, match_history, success_patterns, outcome_log,
          index_log, last_op, last_call, service_vars>>

-----------------------------------------------------------------------------
(* Bounds of the model *)

MaxIndexCalls == 2
MaxIndexCallsLearn == 2
MaxHistoryLearn == 5
MaxRequests == 4
MaxIndexCallsExplain == 2
MaxProfilePairs == 5
MaxLearnCalls == 3
MaxIndexCallsRace == 2
MaxHistoryRecord == 3
MaxIndexCallsBoost == 2
MaxHistoryBoost == 2
MaxIndexCallsBatch == 3
MaxClock == 2
MaxSessions == 1
MaxLoginAttempts == 5
ClockStep == 2

-----------------------------------------------------------------------------
(* Fixed-point arithmetic *)

ONE == 100 * 100

Min(a, b) == IF a <= b THEN a ELSE b
Max(a, b) == IF a >= b THEN a ELSE b
Abs(a) == IF a >= 0 THEN a ELSE 0 - a
Times(x, w) == (x * w) \div ONE

-----------------------------------------------------------------------------
(* Data model: shared/models/core.py *)

CapabilityType == {"skill", "resource", "knowledge", "network", "time", "funding"}

\* str.lower() on the words that occur in the universe below
Lower(w) ==
    CASE w = "Robot" -> "robot"
      [] w = "Navigation" -> "navigation"
      [] w = "Planning" -> "planning"
      [] w = "ROS2" -> "ros2"
      [] w = "Drivers" -> "drivers"
      [] w = "Seed" -> "seed"
      [] w = "Cash" -> "cash"
      [] w = "Help" -> "help"
      [] w = "Lab" -> "lab"
      [] OTHER -> w

\* str.lower().split() of a string given as its sequence of words
LowerSplit(s) == [i \in 1..Len(s) |-> Lower(s[i])]

Range(s) == {s[i] : i \in 1..Len(s)}

\* Capability objects.  proficiency is within [0,1] (api.py Field(ge=0, le=1)).
Capability ==
    [c \in {"a1", "b1", "b2", "c1", "c2", "d1", "d2", "e1"} |->
        CASE c = "a1" ->
               [capability_id |-> "cap-a1", type |-> "knowledge",
                name |-> <<"Robot", "Navigation">>,
                description |-> <<"ros2", "navigation", "stack">>,
                proficiency |-> 9000, tags |-> {"ros2"}]
          [] c = "b1" ->
               [capability_id |-> "cap-b1", type |-> "skill",
                name |-> <<"Navigation", "Planning">>,
                description |-> <<>>,
                proficiency |-> 10000, tags |-> {"ros2"}]
          [] c = "b2" ->
               [capability_id |-> "cap-b2", type |-> "skill",
                name |-> <<"Planning", "Navigation">>,
                description |-> <<>>,
                proficiency |-> 10000, tags |-> {"ros2"}]
          [] c = "c1" ->
               [capability_id |-> "cap-c1", type |-> "skill",
                name |-> <<"ROS2", "Drivers">>,
                description |-> <<"sensor", "drivers">>,
                proficiency |-> 500, tags |-> {"ROS2"}]
          [] c = "c2" ->
               [capability_id |-> "cap-c2", type |-> "resource",
                name |-> <<"Lab">>,
                description |-> <<"shared", "bench", "space">>,
                proficiency |-> 0, tags |-> {"navigation"}]
          [] c = "d1" ->
               [capability_id |-> "cap-d1", type |-> "skill",
                name |-> <<"ROS2", "Drivers">>,
                description |-> <<"kernel">>,
                proficiency |-> 7000, tags |-> {}]
          [] c = "d2" ->
               [capability_id |-> "cap-d2", type |-> "resource",
                name |-> <<"Lab">>,
                description |-> <<>>,
                proficiency |-> 3000, tags |-> {"grant"}]
          [] c = "e1" ->
               [capability_id |-> "cap-e1", type |-> "time",
                name |-> <<>>,
                description |-> <<>>,
                proficiency |-> 10000, tags |-> {}]]

AllCapabilities == DOMAIN Capability

\* UserProfile objects.  timezone "" stands for None; availability is the
\* truth value of the availability dict.
UserProfile ==
    [p \in {"pAlice", "pBob", "pCarol", "pDave", "pErin"} |->
        CASE p = "pAlice" ->
               [user_id |-> "alice", capabilities |-> <<"a1">>,
                timezone |-> "UTC", availability |-> TRUE]
          [] p = "pBob" ->
               [user_id |-> "bob", capabilities |-> <<"b1", "b2">>,
                timezone |-> "UTC", availability |-> FALSE]
          [] p = "pCarol" ->
               [user_id |-> "carol", capabilities |-> <<"c1", "c2">>,
                timezone |-> "CET", availability |-> TRUE]
          [] p = "pDave" ->
               [user_id |-> "dave", capabilities |-> <<"d1", "d2">>,
                timezone |-> "", availability |-> FALSE]
          [] p = "pErin" ->
               [user_id |-> "erin", capabilities |-> <<>>,
                timezone |-> "UTC", availability |-> TRUE]]

AllProfiles == DOMAIN UserProfile

\* the profiles that are indexed and that ask for matches
Profiles == {"pAlice", "pBob", "pCarol"}

\* Need objects.  constraints is the dict; [k \in {} |-> 0] is the empty dict.
Need ==
    [n \in {"n1", "n2", "n3", "n4"} |->
        CASE n = "n1" ->
               [need_id |-> "need-1", type |-> "skill",
                name |-> <<"Navigation", "Planning">>, description |-> <<>>,
                urgency |-> 5000, constraints |-> [k \in {} |-> 0],
                tags |-> {"ros2"}]
          [] n = "n2" ->
               [need_id |-> "need-2", type |-> "funding",
                name |-> <<"Seed", "Cash">>, description |-> <<"grant">>,
                urgency |-> 5000, constraints |-> [k \in {} |-> 0],
                tags |-> {"grant"}]
          [] n = "n3" ->
               [need_id |-> "need-3", type |-> "skill",
                name |-> <<"ROS2", "Help">>, description |-> <<>>,
                urgency |-> 9000, constraints |-> [k \in {"budget"} |-> 5000],
                tags |-> {"ros2", "navigation"}]
          [] n = "n4" ->
               [need_id |-> "need-4", type |-> "time",
                name |-> <<>>, description |-> <<>>,
                urgency |-> 0, constraints |-> [k \in {"budget"} |-> 0],
                tags |-> {}]]

AllNeeds == DOMAIN Need

\* the needs that matches are asked for
Needs == {"n1", "n2", "n3"}

\* ProvenanceStep(operation, outputs, confidence)
ProvenanceStep(operation, output, confidence) ==
    [operation |-> operation, output |-> output, reasoning |-> <<>>,
     confidence |-> confidence]

\* ProvenanceStep(..., reasoning=...): the text as its fixed parts and the
\* numbers formatted into it
WithReasoning(step, reasoning) == [step EXCEPT !.reasoning = reasoning]

-----------------------------------------------------------------------------
(* Configuration *)

\* MatchingConfig() defaults
DefaultMatchingConfig ==
    [min_match_score |-> 4000, max_matches_per_need |-> 10,
     weight_complementarity |-> 4000, weight_proficiency |-> 3000,
     weight_feasibility |-> 3000]

\* A MatchingConfig built by the caller: stricter threshold, one match per need
StrictMatchingConfig ==
    [min_match_score |-> 6000, max_matches_per_need |-> 1,
     weight_complementarity |-> 4000, weight_proficiency |-> 3000,
     weight_feasibility |-> 3000]


Configs == {DefaultMatchingConfig, StrictMatchingConfig}

-----------------------------------------------------------------------------
(* CapabilityMatcher: the index *)

\* A set as a sequence, in some fixed order
RECURSIVE SetToSeq(_)
SetToSeq(S) ==
    IF S = {} THEN <<>>
    ELSE LET x == CHOOSE y \in S : TRUE IN <<x>> \o SetToSeq(S \ {x})

\* Every order in which a set can be iterated
Orderings(S) ==
    {s \in [1..Cardinality(S) -> S] : \A i, j \in 1..Cardinality(S) : i # j => s[i] # s[j]}

\* the tokens of a name that are indexed: len(token) > 3
LongTokens(name) == SelectSeq(LowerSplit(name), LAMBDA t : Len(t) > 3)

\* the keys a capability is posted under, in the order of the appends
\* (the tag keys are distinct, so the order of the tag loop does not matter)
IndexKeys(c) ==
    <<"type:" \o Capability[c].type>>
    \o SetToSeq({"tag:" \o t : t \in Capability[c].tags})
    \o [i \in 1..Len(LongTokens(Capability[c].name)) |->
            "token:" \o LongTokens(Capability[c].name)[i]]

\* self.capability_index[key].append(posting) on a defaultdict(list)
AppendPosting(index, key, posting) ==
    IF key \in DOMAIN index
    THEN [index EXCEPT ![key] = Append(@, posting)]
    ELSE index @@ (key :> <<posting>>)

RECURSIVE AppendPostings(_, _, _)
AppendPostings(index, keys, posting) ==
    IF keys = <<>> THEN index
    ELSE AppendPostings(AppendPosting(index, Head(keys), posting), Tail(keys), posting)

RECURSIVE IndexCapabilities(_, _, _)
IndexCapabilities(index, p, caps) ==
    IF caps = <<>> THEN index
    ELSE IndexCapabilities(AppendPostings(index, IndexKeys(Head(caps)), <<p, Head(caps)>>),
                           p, Tail(caps))

\* CapabilityMatcher.index_user_profile
index_user_profile(index, p) ==
    IndexCapabilities(index, p, UserProfile[p].capabilities)

\* a lookup that answers an unknown key with the postings of another key
IndexGet_Fallback(index, key) ==
    IF key \in DOMAIN index THEN index[key]
    ELSE IF DOMAIN index # {} THEN index[CHOOSE k \in DOMAIN index : TRUE]
    ELSE <<>>

\* self.capability_index.get(key, [])
IndexGet(index, key) == IF key \in DOMAIN index THEN index[key] ELSE <<>>

\* the defaultdict after self.capability_index[key], which inserts a missing key
IndexAfterGet_Subscript(index, key) ==
    IF key \in DOMAIN index THEN index ELSE index @@ (key :> <<>>)

\* the defaultdict after self.capability_index.get(key, []): get never inserts
IndexAfterGet(index, key) == index

\* the defaultdict after the lookups of _retrieve_candidates
RECURSIVE IndexAfterLookups(_, _)
IndexAfterLookups(index, keys) ==
    IF keys = <<>> THEN index
    ELSE IndexAfterLookups(IndexAfterGet(index, Head(keys)), Tail(keys))

-----------------------------------------------------------------------------
(* CapabilityMatcher: candidate retrieval *)

RECURSIVE ExtendAll(_, _)
ExtendAll(index, keys) ==
    IF keys = <<>> THEN <<>>
    ELSE IndexGet(index, Head(keys)) \o ExtendAll(index, Tail(keys))

\* the keys queried for a need; tag_order is the iteration order of need.tags
QueryKeys(n, tag_order) ==
    <<"type:" \o Need[n].type>>
    \o [i \in 1..Len(tag_order) |-> "tag:" \o tag_order[i]]
    \o [i \in 1..Len(LongTokens(Need[n].name)) |->
            "token:" \o LongTokens(Need[n].name)[i]]

CandidateKey(cand) ==
    <<UserProfile[cand[1]].user_id, Capability[cand[2]].capability_id>>

\* retrieval that keeps every posting it met
Deduplicate_KeepAll(candidates, seen, unique) == unique \o candidates

RECURSIVE Deduplicate(_, _, _)
Deduplicate(candidates, seen, unique) ==
    IF candidates = <<>> THEN unique
    ELSE IF CandidateKey(Head(candidates)) \in seen
         THEN Deduplicate(Tail(candidates), seen, unique)
         ELSE Deduplicate(Tail(candidates),
                          seen \cup {CandidateKey(Head(candidates))},
                          Append(unique, Head(candidates)))

\* retrieval that keeps the requester's own capabilities
FilterSelfMatches_KeepOwn(candidates, requester) == candidates

FilterSelfMatches(candidates, requester) ==
    SelectSeq(candidates,
              LAMBDA cand : UserProfile[cand[1]].user_id # UserProfile[requester].user_id)

\* a retrieval that leaves out what the previous call returned
retrieve_candidates_SkipReturned(index, n, requester, tag_order) ==
    SelectSeq(FilterSelfMatches(
                  Deduplicate(ExtendAll(index, QueryKeys(n, tag_order)), {}, <<>>),
                  requester),
              LAMBDA cand : \A i \in 1..Len(last_call.returned) :
                               last_call.returned[i].capability # cand[2])

\* CapabilityMatcher._retrieve_candidates (the returned list)
retrieve_candidates(index, n, requester, tag_order) ==
    FilterSelfMatches(
        Deduplicate(ExtendAll(index, QueryKeys(n, tag_order)), {}, <<>>),
        requester)

-----------------------------------------------------------------------------
(* CapabilityMatcher: scoring *)

\* set(name.lower().split() + description.lower().split()) updated with tags
TokenSet(name, description, tags) ==
    Range(LowerSplit(name) \o LowerSplit(description)) \cup tags

\* CapabilityMatcher._compute_semantic_similarity (Jaccard)
compute_semantic_similarity(n, c) ==
    LET need_tokens == TokenSet(Need[n].name, Need[n].description, Need[n].tags)
        cap_tokens == TokenSet(Capability[c].name, Capability[c].description,
                               Capability[c].tags)
        intersection == Cardinality(need_tokens \cap cap_tokens)
        union == Cardinality(need_tokens \cup cap_tokens)
    IN  IF need_tokens = {} \/ cap_tokens = {} THEN 0
        ELSE IF union > 0 THEN (intersection * ONE) \div union ELSE 0

\* {(c.type.value, c.name) for c in profile.capabilities}
TypeNamePairs(p) ==
    {<<Capability[c].type, Capability[c].name>> : c \in Range(UserProfile[p].capabilities)}

\* a complementarity that is the plain inverse of the overlap
complementarity_of_caps_InverseOverlap(user1_caps, user2_caps) ==
    LET overlap == Cardinality(user1_caps \cap user2_caps)
        total == Cardinality(user1_caps \cup user2_caps)
    IN  IF total = 0 THEN 5000
        ELSE ONE - (overlap * ONE) \div total

\* CapabilityMatcher._compute_complementarity on the two sets of
\* (type, name) pairs it builds from the profiles
complementarity_of_caps(user1_caps, user2_caps) ==
    LET overlap == Cardinality(user1_caps \cap user2_caps)
        total == Cardinality(user1_caps \cup user2_caps)
        overlap_ratio == (overlap * ONE) \div total
        optimal_overlap == 2000
        distance == Abs(overlap_ratio - optimal_overlap)
        complementarity == ONE - (distance * 2)
    IN  IF total = 0 THEN 5000
        ELSE Max(0, Min(ONE, complementarity))

\* complementarity returned as computed, without the final max/min
compute_complementarity_Unclamped(p1, p2) ==
    LET overlap == Cardinality(TypeNamePairs(p1) \cap TypeNamePairs(p2))
        total == Cardinality(TypeNamePairs(p1) \cup TypeNamePairs(p2))
        overlap_ratio == (overlap * ONE) \div total
    IN  IF total = 0 THEN 5000
        ELSE ONE - (Abs(overlap_ratio - 2000) * 2)

\* CapabilityMatcher._compute_complementarity
compute_complementarity(p1, p2) ==
    complementarity_of_caps(TypeNamePairs(p1), TypeNamePairs(p2))

\* CapabilityMatcher._compute_feasibility
compute_feasibility(p1, p2, n) ==
    LET f0 == ONE
        f1 == IF /\ UserProfile[p1].timezone # ""
                 /\ UserProfile[p2].timezone # ""
                 /\ UserProfile[p1].timezone # UserProfile[p2].timezone
              THEN (f0 * 8) \div 10 ELSE f0
        f2 == IF UserProfile[p1].availability /\ UserProfile[p2].availability
              THEN (f1 * 9) \div 10 ELSE f1
        budget == IF "budget" \in DOMAIN Need[n].constraints
                  THEN Need[n].constraints["budget"] ELSE 0
        f3 == IF DOMAIN Need[n].constraints # {} /\ budget # 0
              THEN (f2 * 95) \div 100 ELSE f2
        f4 == IF Need[n].urgency > 8000 THEN (f3 * 9) \div 10 ELSE f3
    IN  Max(0, Min(ONE, f4))

RECURSIVE SumScores(_)
SumScores(matches) ==
    IF matches = <<>> THEN 0 ELSE Head(matches).match_score + SumScores(Tail(matches))

\* CapabilityMatcher._apply_historical_learning
apply_historical_learning(history, n, c) ==
    LET similar_matches ==
            SelectSeq(history,
                      LAMBDA m : /\ Need[m.need].type = Need[n].type
                                 /\ Capability[m.capability].type = Capability[c].type)
        avg_score == SumScores(similar_matches) \div Len(similar_matches)
    IN  IF history = <<>> THEN 0
        ELSE IF similar_matches = <<>> THEN 0
        ELSE Times(avg_score - 5000, 2000)

\* CapabilityMatcher._compute_confidence
compute_confidence(match, history) ==
    ( match.match_score
    + (IF match.evidence # <<>> THEN 9000 ELSE 5000)
    + 8000
    + (IF history # <<>> THEN 8000 ELSE 5000) ) \div 4

\* CapabilityMatcher._gather_evidence
gather_evidence(n, c) ==
    (IF Need[n].description # <<>> /\ Capability[c].description # <<>>
     THEN <<"Need and capability descriptions are aligned">> ELSE <<>>)
    \o (IF Need[n].tags \cap Capability[c].tags # {}
        THEN <<"Shared domain tags">> ELSE <<>>)
    \o (IF Capability[c].proficiency >= 7000
        THEN <<"High proficiency level">> ELSE <<>>)

\* CapabilityMatcher._identify_uncertainties
identify_uncertainties(p1, p2, history) ==
    (IF Len(UserProfile[p1].capabilities) < 3
     THEN <<"Limited capability data for need user">> ELSE <<>>)
    \o (IF Len(UserProfile[p2].capabilities) < 3
        THEN <<"Limited capability data for capability user">> ELSE <<>>)
    \o (IF history = <<>>
        THEN <<"No historical match data for calibration">> ELSE <<>>)
    \o (IF UserProfile[p1].timezone = ""
        THEN <<"Unknown timezone for need user">> ELSE <<>>)
    \o (IF UserProfile[p2].timezone = ""
        THEN <<"Unknown timezone for capability user">> ELSE <<>>)

\* the weighted combination of CapabilityMatcher._score_match
CombineScores(cfg, semantic_score, complementarity_score, proficiency, feasibility_score, historical_boost) ==
    Times(semantic_score, 3000)
    + Times(complementarity_score, cfg.weight_complementarity)
    + Times(proficiency, cfg.weight_proficiency)
    + Times(feasibility_score, cfg.weight_feasibility)
    + Times(historical_boost, 1000)

\* CapabilityMatcher._score_match: the Match it returns
score_match(cfg, history, n, need_profile, c, cap_profile) ==
    LET semantic_score == compute_semantic_similarity(n, c)
        complementarity_score == compute_complementarity(need_profile, cap_profile)
        feasibility_score == compute_feasibility(need_profile, cap_profile, n)
        historical_boost == apply_historical_learning(history, n, c)
        match ==
            [need |-> n,
             need_user_id |-> UserProfile[need_profile].user_id,
             capability |-> c,
             capability_user_id |-> UserProfile[cap_profile].user_id,
             match_score |-> CombineScores(cfg, semantic_score, complementarity_score,
                                           Capability[c].proficiency,
                                           feasibility_score, historical_boost),
             complementarity_score |-> complementarity_score,
             feasibility_score |-> feasibility_score,
             confidence |-> 0,
             evidence |-> <<>>,
             uncertainty_factors |-> <<>>,
             provenance |->
                << WithReasoning(
                       ProvenanceStep("semantic_similarity", semantic_score, 8000),
                       <<"Computed semantic similarity between need and capability">>),
                   WithReasoning(
                       ProvenanceStep("complementarity_analysis", complementarity_score, 7000),
                       <<"Analyzed how well the users' capabilities complement each other">>),
                   WithReasoning(
                       ProvenanceStep("feasibility_assessment", feasibility_score, 7500),
                       <<"Assessed practical feasibility (location, time, resources)">>),
                   WithReasoning(
                       ProvenanceStep("historical_learning", historical_boost,
                                      IF history # <<>> THEN 6000 ELSE 3000),
                       <<"Applied learning from", Len(history), "past matches">>) >>]
    IN  [match EXCEPT
            !.confidence = compute_confidence(match, history),
            !.evidence = gather_evidence(n, c),
            !.uncertainty_factors = identify_uncertainties(need_profile, cap_profile, history)]

-----------------------------------------------------------------------------
(* CapabilityMatcher: ranking *)

\* a descending sort that puts a match ahead of earlier matches of equal score
InsertSorted_Unstable(sorted, m) ==
    LET k == Cardinality({i \in 1..Len(sorted) : sorted[i].match_score > m.match_score})
    IN  SubSeq(sorted, 1, k) \o <<m>> \o SubSeq(sorted, k + 1, Len(sorted))

\* list.sort(key=match_score, reverse=True): stable, equal scores keep their order
InsertSorted(sorted, m) ==
    LET k == Cardinality({i \in 1..Len(sorted) : sorted[i].match_score >= m.match_score})
    IN  SubSeq(sorted, 1, k) \o <<m>> \o SubSeq(sorted, k + 1, Len(sorted))

RECURSIVE SortByScoreDesc(_)
SortByScoreDesc(matches) ==
    IF matches = <<>> THEN <<>>
    ELSE InsertSorted(SortByScoreDesc(SubSeq(matches, 1, Len(matches) - 1)),
                      matches[Len(matches)])

\* max_results or self.config.max_matches_per_need  (<<>> is None, <<k>> is k)
MaxResultsOrDefault(max_results, cfg) ==
    IF max_results = <<>> THEN cfg.max_matches_per_need
    ELSE IF max_results[1] = 0 THEN cfg.max_matches_per_need
    ELSE max_results[1]

\* scored_matches[:limit] for limit >= 0
Truncate(matches, limit) == SubSeq(matches, 1, Min(limit, Len(matches)))

\* a threshold test that lets every scored match through
PassesThreshold_Always(cfg, m) == TRUE

\* the threshold test of find_matches
PassesThreshold(cfg, m) == m.match_score >= cfg.min_match_score

\* the step _retrieve_candidates appends to the call's provenance graph
retrieval_step(candidates) ==
    WithReasoning(
        ProvenanceStep("candidate_retrieval", Len(candidates), 9000),
        <<"Retrieved", Len(candidates),
          "candidates using type, tag, and semantic matching">>)

\* CapabilityMatcher._add_ranking_reasoning
add_ranking_reasoning(matches, provenance) ==
    IF matches = <<>> THEN provenance
    ELSE Append(provenance,
                WithReasoning(
                    ProvenanceStep("ranking", matches[1].match_score, 8500),
                    <<"Ranked", Len(matches),
                      "matches by combined score of semantic similarity, complementarity, proficiency, and feasibility">>))

\* CapabilityMatcher.find_matches: candidates, every scored Match, the list
\* returned and the steps of the call's provenance graph
find_matches(index, history, cfg, n, requester, max_results, tag_order) ==
    LET candidates == retrieve_candidates(index, n, requester, tag_order)
        scored == [i \in 1..Len(candidates) |->
                     score_match(cfg, history, n, requester,
                                 candidates[i][2], candidates[i][1])]
        scored_matches == SelectSeq(scored, LAMBDA m : PassesThreshold(cfg, m))
        top_matches == Truncate(SortByScoreDesc(scored_matches),
                                MaxResultsOrDefault(max_results, cfg))
    IN  [status |-> "returned",
         need |-> n, need_user_profile |-> requester, max_results |-> max_results,
         tag_order |-> tag_order,
         candidates |-> candidates,
         scored |-> scored,
         returned |-> top_matches,
         provenance |-> add_ranking_reasoning(top_matches, <<retrieval_step(candidates)>>)]

-----------------------------------------------------------------------------
(* CapabilityMatcher: learning *)

PatternKey(m) == Need[m.need].type \o ":" \o Capability[m.capability].type

\* a pattern update that overwrites the stored value with the new observation
UpdatePatterns_Overwrite(patterns, m, success) ==
    LET new_value == IF success THEN m.match_score ELSE 0
    IN  IF PatternKey(m) \notin DOMAIN patterns
        THEN patterns @@ (PatternKey(m) :> new_value)
        ELSE [patterns EXCEPT ![PatternKey(m)] = new_value]

\* CapabilityMatcher.learn_from_outcome: the new success_patterns
UpdatePatterns(patterns, m, success) ==
    LET new_value == IF success THEN m.match_score ELSE 0
    IN  IF PatternKey(m) \notin DOMAIN patterns
        THEN patterns @@ (PatternKey(m) :> new_value)
        ELSE [patterns EXCEPT
                ![PatternKey(m)] = Times(3000, new_value) + Times(ONE - 3000, @)]

-----------------------------------------------------------------------------
(* SemanticMatcher.  ChromaDB is taken to be absent (CHROMADB_AVAILABLE is     *)
(* False, capabilities_collection is None), so retrieval is _query_memory.     *)
(* An embedding is a numpy vector of the sentence-transformers model; what     *)
(* the model reads of it is whether it is None and the cosine similarities,    *)
(* which are inputs of the call.                                               *)

\* SemanticMatchingConfig() defaults
DefaultSemanticMatchingConfig ==
    [min_match_score |-> 4000, max_matches_per_need |-> 10,
     similarity_threshold |-> 3000,
     weight_semantic |-> 4000, weight_complementarity |-> 3000,
     weight_proficiency |-> 2000, weight_feasibility |-> 1000]

\* the cosine similarities an embedding model may report
CosineValues == {2500, 9000}

\* the capabilities whose embeddings are in the in-memory store
StoredCapabilities(memory) == {memory[i][2] : i \in 1..Len(memory)}

\* SemanticMatcher._embed_capability / _embed_need return None without a model
EmbeddingIsNone(embeddings_available) == ~embeddings_available

RECURSIVE sm_index_capabilities(_, _, _, _)
sm_index_capabilities(memory, p, caps, embeddings_available) ==
    IF caps = <<>> THEN memory
    ELSE sm_index_capabilities(
            IF EmbeddingIsNone(embeddings_available) THEN memory
            ELSE Append(memory, <<p, Head(caps)>>),
            p, Tail(caps), embeddings_available)

\* SemanticMatcher.index_user_profile (in-memory store)
sm_index_user_profile(memory, p, embeddings_available) ==
    sm_index_capabilities(memory, p, UserProfile[p].capabilities, embeddings_available)

\* SemanticMatcher._query_memory (the returned list)
sm_query_memory(memory, cfg, n, requester, embeddings_available, cosine) ==
    IF ~EmbeddingIsNone(embeddings_available)
    THEN SelectSeq(memory,
            LAMBDA e : /\ UserProfile[e[1]].user_id # UserProfile[requester].user_id
                       /\ cosine[e[2]] >= cfg.similarity_threshold)
    ELSE SelectSeq(memory,
            LAMBDA e : /\ UserProfile[e[1]].user_id # UserProfile[requester].user_id
                       /\ \/ Capability[e[2]].type = Need[n].type
                          \/ Need[n].tags \cap Capability[e[2]].tags # {})

\* SemanticMatcher._compute_feasibility
sm_compute_feasibility(p1, p2, n) ==
    LET f0 == ONE
        f1 == IF /\ UserProfile[p1].timezone # ""
                 /\ UserProfile[p2].timezone # ""
                 /\ UserProfile[p1].timezone # UserProfile[p2].timezone
              THEN (f0 * 9) \div 10 ELSE f0
    IN  IF Need[n].urgency > 8000 THEN (f1 * 9) \div 10 ELSE f1

\* SemanticMatcher._compute_confidence
sm_compute_confidence(match, has_embeddings, history) ==
    ( (IF has_embeddings THEN 9000 ELSE 6000)
    + match.match_score
    + (IF match.evidence # <<>> THEN 8000 ELSE 5000)
    + (IF Len(history) > 10 THEN 8000 ELSE 5000) ) \div 4

\* "if not need_embedding" on a numpy vector of more than one element raises
\* ValueError (the truth value of an array is ambiguous); on None it is True
NotEmbeddingRaises(embeddings_available) == ~EmbeddingIsNone(embeddings_available)

\* SemanticMatcher._score_match: the Match it returns when it does not raise
sm_score_match(cfg, history, n, need_profile, c, cap_profile, embeddings_available, cosine) ==
    LET semantic_sim == IF ~EmbeddingIsNone(embeddings_available) THEN cosine[c]
                        ELSE compute_semantic_similarity(n, c)
        complementarity == compute_complementarity(need_profile, cap_profile)
        feasibility == sm_compute_feasibility(need_profile, cap_profile, n)
        match ==
            [need |-> n,
             need_user_id |-> UserProfile[need_profile].user_id,
             capability |-> c,
             capability_user_id |-> UserProfile[cap_profile].user_id,
             match_score |-> Times(semantic_sim, cfg.weight_semantic)
                             + Times(complementarity, cfg.weight_complementarity)
                             + Times(Capability[c].proficiency, cfg.weight_proficiency)
                             + Times(feasibility, cfg.weight_feasibility),
             complementarity_score |-> complementarity,
             feasibility_score |-> feasibility,
             confidence |-> 0,
             evidence |-> <<>>,
             uncertainty_factors |-> <<>>,
             provenance |->
                << ProvenanceStep("semantic_similarity", semantic_sim,
                        IF ~EmbeddingIsNone(embeddings_available) THEN 9000 ELSE 6000) >>]
    IN  [match EXCEPT
            !.confidence = sm_compute_confidence(match,
                                ~EmbeddingIsNone(embeddings_available), history),
            !.evidence = <<"Semantic similarity", "Complementarity",
                           "Proficiency", "Feasibility">>,
            !.uncertainty_factors =
                (IF EmbeddingIsNone(embeddings_available)
                 THEN <<"No embeddings available (keyword fallback)">> ELSE <<>>)
                \o (IF Len(history) < 10
                    THEN <<"Limited historical data for calibration">> ELSE <<>>)]

\* SemanticMatcher.find_matches.  When _score_match raises on the first
\* candidate, scored holds the Match it was building, as it was at the raise
sm_find_matches(memory, history, cfg, n, requester, max_results, embeddings_available, cosine) ==
    LET candidates == sm_query_memory(memory, cfg, n, requester,
                                      embeddings_available, cosine)
        scored == [i \in 1..Len(candidates) |->
                     sm_score_match(cfg, history, n, requester, candidates[i][2],
                                    candidates[i][1], embeddings_available, cosine)]
        scored_matches == SelectSeq(scored, LAMBDA m : PassesThreshold(cfg, m))
        top_matches == Truncate(SortByScoreDesc(scored_matches),
                                MaxResultsOrDefault(max_results, cfg))
        retrieval ==
            << ProvenanceStep("need_embedding_generation",
                              ~EmbeddingIsNone(embeddings_available),
                              IF ~EmbeddingIsNone(embeddings_available) THEN 9500 ELSE 3000),
               ProvenanceStep("memory_query", Len(candidates), 7000) >>
    IN  IF candidates # <<>> /\ NotEmbeddingRaises(embeddings_available)
        THEN [status |-> "raised",
              need |-> n, need_user_profile |-> requester, max_results |-> max_results,
              candidates |-> candidates,
              scored |-> <<[scored[1] EXCEPT !.uncertainty_factors = <<>>]>>,
              returned |-> <<>>,
              provenance |-> retrieval]
        ELSE [status |-> "returned",
              need |-> n, need_user_profile |-> requester, max_results |-> max_results,
              candidates |-> candidates, scored |-> scored, returned |-> top_matches,
              provenance |->
                 retrieval
                 \o (IF top_matches = <<>> THEN <<>>
                     ELSE <<ProvenanceStep("ranking", top_matches[1].match_score, 9000)>>)]

-----------------------------------------------------------------------------
(* TransparencyEngine (cloud/transparency/engine.py) *)

\* a listing that shows only the steps of high confidence
format_provenance_KeySteps(provenance) ==
    LET key_steps == SelectSeq(provenance, LAMBDA step : step.confidence >= 8000)
    IN  [i \in 1..Len(key_steps) |->
            [step |-> i,
             operation |-> key_steps[i].operation,
             reasoning |-> key_steps[i].reasoning,
             confidence |-> key_steps[i].confidence]]

\* TransparencyEngine._format_provenance
format_provenance(provenance) ==
    [i \in 1..Len(provenance) |->
        [step |-> (i - 1) + 1,
         operation |-> provenance[i].operation,
         reasoning |-> provenance[i].reasoning,
         confidence |-> provenance[i].confidence]]

\* TransparencyEngine._extract_key_factors
extract_key_factors(provenance) ==
    LET key_steps == SelectSeq(provenance, LAMBDA step : step.confidence >= 8000)
    IN  [i \in 1..Len(key_steps) |-> <<key_steps[i].operation, key_steps[i].reasoning>>]

\* TransparencyEngine._interpret_score
interpret_score(score) ==
    IF score >= 8000 THEN "Excellent match"
    ELSE IF score >= 6000 THEN "Good match"
    ELSE IF score >= 4000 THEN "Moderate match"
    ELSE "Weak match"

\* TransparencyEngine._estimate_confidence_interval
estimate_confidence_interval(match) ==
    LET uncertainty == ONE - match.confidence
        margin == Times(Times(match.match_score, uncertainty), 3000)
    IN  <<Max(0, match.match_score - margin), Min(ONE, match.match_score + margin)>>

\* TransparencyEngine.explain_match with its default flags
explain_match(match) ==
    [scores |->
        [overall_match |-> [value |-> match.match_score,
                            interpretation |-> interpret_score(match.match_score),
                            confidence |-> match.confidence],
         complementarity |-> [value |-> match.complementarity_score],
         feasibility |-> [value |-> match.feasibility_score]],
     reasoning |->
        [step_by_step |-> format_provenance(match.provenance),
         key_factors |-> extract_key_factors(match.provenance),
         evidence |-> match.evidence],
     uncertainty |->
        [factors |-> match.uncertainty_factors,
         confidence_interval |-> estimate_confidence_interval(match)]]

\* one step of a verification protocol
ProtocolStep(step, action, how, what_to_look_for, red_flags) ==
    [step |-> step, action |-> action, how |-> how,
     what_to_look_for |-> what_to_look_for, red_flags |-> red_flags]

\* the protocol literal for decision_type "match"
MatchProtocol ==
        << ProtocolStep(1, "Check capability alignment",
               "Compare the need description with the capability description",
               "Do they address the same problem domain?",
               <<"Mismatched domains", "Vague descriptions">>),
           ProtocolStep(2, "Verify evidence",
               "Check the cited sources and references",
               "Are the sources credible and relevant?",
               <<"Broken links", "Outdated info", "Weak sources">>),
           ProtocolStep(3, "Assess complementarity",
               "Consider if this collaboration makes sense",
               "Do the skills truly complement each other?",
               <<"Too much overlap", "Missing critical skills">>),
           ProtocolStep(4, "Check feasibility",
               "Consider practical constraints (location, time, resources)",
               "Can this actually work in practice?",
               <<"Incompatible timezones", "Resource conflicts">>),
           ProtocolStep(5, "Trust your judgment",
               "Does this feel right based on your expertise?",
               "Your domain knowledge is valuable",
               <<"Something feels off", "Too good to be true">>) >>

\* the protocol literal for decision_type "team"
TeamProtocol ==
        << ProtocolStep(1, "Review team composition",
               "Look at each member's role and capabilities",
               "Are all necessary roles covered?",
               <<"Missing critical skills", "Unclear roles">>),
           ProtocolStep(2, "Assess synergies",
               "Consider how team members would work together",
               "Complementary skills, collaborative potential",
               <<"Conflicting approaches", "Communication barriers">>),
           ProtocolStep(3, "Evaluate feasibility",
               "Check timeline, cost, resource estimates",
               "Are estimates realistic?",
               <<"Too optimistic", "Missing dependencies">>),
           ProtocolStep(4, "Review risk factors",
               "Consider what could go wrong",
               "Are risks identified and addressable?",
               <<"Unmanaged risks", "No contingency plans">>) >>

\* a protocol that leaves out the evidence step for a decision without evidence
generate_verification_protocol_ByEvidence(decision, decision_type) ==
    IF decision_type = "match"
    THEN IF decision = <<>> \/ decision.evidence = <<>>
         THEN SelectSeq(MatchProtocol, LAMBDA st : st.action # "Verify evidence")
         ELSE MatchProtocol
    ELSE IF decision_type = "team" THEN TeamProtocol
    ELSE <<>>

\* TransparencyEngine.generate_verification_protocol
generate_verification_protocol(decision, decision_type) ==
    IF decision_type = "match" THEN MatchProtocol
    ELSE IF decision_type = "team" THEN TeamProtocol
    ELSE <<>>

-----------------------------------------------------------------------------
(* SubstrateDatabase (shared/persistence/database.py) *)

PrivacyLevel == {"public", "network", "private", "confidential"}

ProblemDomain == {"robotics", "research", "software", "hardware", "biology",
                  "climate", "health", "education", "manufacturing", "other"}

\* _create_tables on a fresh database file: every table empty.  users and
\* matches are keyed by their primary key; the other tables get a fresh
\* uuid or AUTOINCREMENT key per row and are kept in insertion order.
EmptyDatabase ==
    [users |-> <<>>, capabilities |-> <<>>, needs |-> <<>>, matches |-> <<>>,
     outcomes |-> <<>>, learning_signals |-> <<>>]

\* INSERT OR REPLACE of a row under its primary key
Upsert(table, key, row) ==
    [k \in DOMAIN table \cup {key} |-> IF k = key THEN row ELSE table[k]]

\* SubstrateDatabase.save_user_profile
save_user_profile(database, p) ==
    [database EXCEPT
        !.users = Upsert(@, UserProfile[p].user_id,
                         [timezone |-> UserProfile[p].timezone]),
        !.capabilities = @ \o [i \in 1..Len(UserProfile[p].capabilities) |->
                                 [user_id |-> UserProfile[p].user_id,
                                  capability |-> UserProfile[p].capabilities[i]]]]

\* SubstrateDatabase.save_need
save_need(database, n, user_id) ==
    [database EXCEPT !.needs = Append(@, [need |-> n, user_id |-> user_id])]

\* SubstrateDatabase.save_match: the status column is not written and takes
\* its default
save_match(database, match_id, m) ==
    [database EXCEPT
        !.matches = Upsert(@, match_id,
                           [status |-> "proposed",
                            match_score |-> m.match_score,
                            complementarity_score |-> m.complementarity_score,
                            feasibility_score |-> m.feasibility_score,
                            confidence |-> m.confidence])]

\* SubstrateDatabase.update_match_status: UPDATE ... WHERE match_id = ?
update_match_status(database, match_id, status) ==
    IF match_id \in DOMAIN database.matches
    THEN [database EXCEPT !.matches[match_id].status = status]
    ELSE database

\* SubstrateDatabase._record_learning_signal
record_learning_signal(database, match_id, success) ==
    IF match_id = "" THEN database
    ELSE IF match_id \notin DOMAIN database.matches THEN database
    ELSE [database EXCEPT
            !.learning_signals =
                Append(@, [match_id |-> match_id,
                           signal_type |-> "outcome",
                           signal_value |-> IF success THEN ONE ELSE 0,
                           features |->
                              [match_score |-> database.matches[match_id].match_score,
                               complementarity_score |->
                                  database.matches[match_id].complementarity_score,
                               feasibility_score |->
                                  database.matches[match_id].feasibility_score,
                               confidence |-> database.matches[match_id].confidence]])]

\* SubstrateDatabase.save_outcome (foreign keys are declared but SQLite does
\* not enforce them on this connection)
save_outcome(database, match_id, success) ==
    record_learning_signal(
        [database EXCEPT !.outcomes = Append(@, [match_id |-> match_id,
                                                 success |-> success])],
        match_id, success)

-----------------------------------------------------------------------------
(* security/authentication.py: AuthenticationSystem.                       *)
(* Optional values are <<>> for None and <<v>> for v; a str argument whose  *)
(* characters the code inspects is the sequence of its characters; a        *)
(* datetime is a number of five-minute units since the module was imported. *)

MAX_LOGIN_ATTEMPTS == 5
\* timedelta(minutes=15), timedelta(hours=4), timedelta(minutes=5)
LOCKOUT_DURATION == 3
SESSION_TIMEOUT == 48
MFA_TIMEOUT == 1
\* timedelta(hours=1) in _record_login_attempt
ATTEMPT_RETENTION == 12

\* the class-definition-time value of the dataclass defaults
\* created_at = datetime.utcnow() and last_activity = datetime.utcnow()
IMPORT_TIME == 0

\* base64.b64encode / b64decode: an injective encoding and its inverse
b64encode(bytes) == <<"b64", bytes>>

b64decode(text) == text[2]

\* hashlib.pbkdf2_hmac('sha256', password, salt, 480_000), taken as
\* collision free: the digest names the password and the salt it was made of
pbkdf2_hmac(password, salt) == <<"sha256", password, salt>>

\* hash_password with a given salt: (hash_string, salt)
hash_password(password, salt) == <<b64encode(pbkdf2_hmac(password, salt)), salt>>

\* verify_password: hmac.compare_digest of the stored and the computed hash
verify_password(password, hash_string, salt) ==
    hash_string = hash_password(password, salt)[1]

DigitCharacters == {"0", "1", "2", "3", "4", "5", "6", "7", "8", "9"}

\* _verify_totp: len(code) == 6 and code.isdigit(); the secret is not read
verify_totp(secret, code) ==
    Len(code) = 6 /\ \A i \in 1..Len(code) : code[i] \in DigitCharacters

\* the truth value of an Optional[str]: None and "" are false
Truthy(optional_text) == optional_text # <<>> /\ optional_text[1] # <<>>

\* _check_rate_limit
check_rate_limit(attempts, email, now) ==
    IF email \notin DOMAIN attempts THEN TRUE
    ELSE LET Recent(timestamp) == now - timestamp < LOCKOUT_DURATION
         IN Len(SelectSeq(attempts[email], Recent)) < MAX_LOGIN_ATTEMPTS

\* _record_login_attempt
record_login_attempt(attempts, email, now) ==
    LET created == IF email \notin DOMAIN attempts THEN (email :> <<>>) @@ attempts
                   ELSE attempts
        Kept(t) == t > now - ATTEMPT_RETENTION
    IN [created EXCEPT ![email] = SelectSeq(Append(@, now), Kept)]

\* _create_session: the Session stored under session_id (ip_address and
\* user_agent digests are written once and never read, and are left out)
create_session(user_id, session_id, now) ==
    [session_id |-> session_id, user_id |-> user_id, created_at |-> now,
     expires_at |-> now + SESSION_TIMEOUT, mfa_verified |-> FALSE,
     last_activity |-> IMPORT_TIME]

\* session.mfa_verified = bool(totp_code)
session_mfa_verified(totp_code) == Truthy(totp_code)

\* register_user: the User stored, or the ValueError raised
register_user(us, email, password, require_mfa, salt, user_id, secret) ==
    IF email \in {us[u].email : u \in DOMAIN us}
    THEN [users |-> us, result |-> <<"ValueError">>]
    ELSE LET hashed == hash_password(password, salt)
             user == [user_id |-> user_id, email |-> email,
                      password_hash |-> <<hashed[1], b64encode(hashed[2])>>,
                      totp_secret |-> IF require_mfa THEN <<secret>> ELSE <<>>,
                      created_at |-> IMPORT_TIME, last_login |-> <<>>,
                      failed_login_attempts |-> 0, locked_until |-> <<>>]
         IN [users |-> (user_id :> user) @@ us, result |-> <<user_id>>]

\* login: the fields after the call, the Session returned (<<>> is None) and
\* whether _verify_totp was called with the user's secret
login(us, ss, la, now, email, password, totp_code, session_id) ==
    LET none == [users |-> us, sessions |-> ss, login_attempts |-> la,
                 result |-> <<>>, totp_checked |-> FALSE]
        found == {u \in DOMAIN us : us[u].email = email}
    IN IF found = {} THEN none
       ELSE
       LET user_id == CHOOSE u \in found : TRUE
           user == us[user_id]
           failed == user.failed_login_attempts + 1
       IN IF user.locked_until # <<>> /\ now < user.locked_until[1] THEN none
          ELSE IF ~check_rate_limit(la, email, now) THEN none
          ELSE IF ~verify_password(password, user.password_hash[1],
                                   b64decode(user.password_hash[2]))
          THEN [none EXCEPT
                  !.users = [us EXCEPT
                               ![user_id].failed_login_attempts = failed,
                               ![user_id].locked_until =
                                   IF failed >= MAX_LOGIN_ATTEMPTS
                                   THEN <<now + LOCKOUT_DURATION>> ELSE @],
                  !.login_attempts = record_login_attempt(la, email, now)]
          ELSE IF user.totp_secret # <<>> /\ ~Truthy(totp_code) THEN none
          ELSE IF user.totp_secret # <<>>
                   /\ ~verify_totp(user.totp_secret[1], totp_code[1])
          THEN [none EXCEPT !.totp_checked = TRUE]
          ELSE [users |-> [us EXCEPT ![user_id].failed_login_attempts = 0,
                                     ![user_id].locked_until = <<>>,
                                     ![user_id].last_login = <<now>>],
                sessions |-> (session_id :>
                                [create_session(user_id, session_id, now) EXCEPT
                                   !.mfa_verified = session_mfa_verified(totp_code)])
                             @@ ss,
                login_attempts |-> record_login_attempt(la, email, now),
                result |-> <<session_id>>,
                totp_checked |-> user.totp_secret # <<>>]

\* verify_session: the sessions after the call and the user returned
verify_session(us, ss, now, session_id) ==
    IF session_id \notin DOMAIN ss THEN [sessions |-> ss, result |-> <<>>]
    ELSE IF now > ss[session_id].expires_at
    THEN [sessions |-> [s \in DOMAIN ss \ {session_id} |-> ss[s]], result |-> <<>>]
    ELSE [sessions |-> [ss EXCEPT ![session_id].last_activity = now],
          result |-> IF ss[session_id].user_id \in DOMAIN us
                     THEN <<ss[session_id].user_id>> ELSE <<>>]

\* logout
logout(ss, session_id) ==
    IF session_id \in DOMAIN ss THEN [s \in DOMAIN ss \ {session_id} |-> ss[s]]
    ELSE ss

\* require_reauthentication
require_reauthentication(ss, now, session_id) ==
    IF session_id \notin DOMAIN ss THEN TRUE
    ELSE IF now - ss[session_id].last_activity > MFA_TIMEOUT THEN TRUE
    ELSE IF ~ss[session_id].mfa_verified THEN TRUE
    ELSE FALSE

-----------------------------------------------------------------------------
(* The state machine *)

\* max_results: None, 0, 1, 2
MaxResultsArgs == {<<>>, <<0>>, <<1>>, <<2>>}

NoCall == [status |-> "none", need |-> "", need_user_profile |-> "",
           max_results |-> <<>>, candidates |-> <<>>, scored |-> <<>>,
           returned |-> <<>>, provenance |-> <<>>]

\* no TransparencyEngine call made yet
NoExplanation == [call |-> "none"]

\* the threads that call learn_from_outcome on the one matcher
Threads == {"t1", "t2"}

\* a thread outside learn_from_outcome
IdleThread == [pc |-> "idle", match |-> <<>>, success |-> FALSE, current |-> 0]

\* no AuthenticationSystem method called yet
NoAuthCall == [call |-> "none", session_id |-> <<>>, result |-> <<>>,
               totp_checked |-> FALSE]

\* no request handled yet
NoResponse == [endpoint |-> "", request |-> "", status |-> "none"]

\* CapabilityMatcher.__init__ / SemanticMatcher.__init__, and the module
\* level objects of api.py
Init ==
    /\ \/ /\ engine = "CapabilityMatcher"
          /\ EMBEDDINGS_AVAILABLE = FALSE
          /\ config \in Configs
       \/ /\ engine = "SemanticMatcher"
          /\ EMBEDDINGS_AVAILABLE \in BOOLEAN
          /\ config = DefaultSemanticMatchingConfig
    /\ capability_index = <<>>
    /\ memory_capabilities = <<>>
    /\ match_history = <<>>
    /\ success_patterns = <<>>
    /\ outcome_log = <<>>
    /\ index_log = <<>>
    /\ last_op = "__init__"
    /\ last_call = NoCall
    /\ db = EmptyDatabase
    /\ profile_cache = <<>>
    /\ response = NoResponse
    /\ request_count = 0
    /\ explanation = NoExplanation
    /\ threads = [t \in Threads |-> IdleThread]
    /\ users = <<>>
    /\ sessions = <<>>
    /\ login_attempts = <<>>
    /\ clock = 0
    /\ auth_return = NoAuthCall

CM_index_user_profile(p, max_calls) ==
    /\ engine = "CapabilityMatcher"
    /\ Len(index_log) < max_calls
    /\ capability_index' = index_user_profile(capability_index, p)
    /\ index_log' = Append(index_log, p)
    /\ last_op' = "index_user_profile"
    /\ UNCHANGED <<engine, EMBEDDINGS_AVAILABLE, config, memory_capabilities,
                   match_history, success_patterns, outcome_log, last_call>>
    /\ UNCHANGED service_vars

CM_find_matches(n, requester, max_results, tag_order) ==
    /\ engine = "CapabilityMatcher"
    /\ last_call' = find_matches(capability_index, match_history, config,
                                 n, requester, max_results, tag_order)
    /\ last_op' = "find_matches"
    /\ capability_index' = IndexAfterLookups(capability_index, QueryKeys(n, tag_order))
    /\ UNCHANGED <<engine, EMBEDDINGS_AVAILABLE, config,
                   memory_capabilities, match_history, success_patterns,
                   outcome_log, index_log>>
    /\ UNCHANGED service_vars

\* learn_from_outcome on a Match that find_matches returned
CM_learn_from_outcome(m, success, max_history) ==
    /\ engine = "CapabilityMatcher"
    /\ Len(match_history) < max_history
    /\ match_history' = Append(match_history, m)
    /\ success_patterns' = UpdatePatterns(success_patterns, m, success)
    /\ outcome_log' = Append(outcome_log, success)
    /\ last_op' = "learn_from_outcome"
    /\ UNCHANGED <<engine, EMBEDDINGS_AVAILABLE, config, capability_index,
                   memory_capabilities, index_log, last_call>>
    /\ UNCHANGED service_vars

\* a direct call of _score_match, as BatchMatcher.find_optimal_matching makes
CM_score_match(n, need_profile, c, cap_profile) ==
    /\ engine = "CapabilityMatcher"
    /\ last_call' = [status |-> "scored",
                     need |-> n, need_user_profile |-> need_profile,
                     max_results |-> <<>>,
                     candidates |-> <<<<cap_profile, c>>>>,
                     scored |-> <<score_match(config, match_history, n, need_profile,
                                              c, cap_profile)>>,
                     returned |-> <<>>, provenance |-> <<>>]
    /\ last_op' = "_score_match"
    /\ UNCHANGED <<engine, EMBEDDINGS_AVAILABLE, config, capability_index,
                   memory_capabilities, match_history, success_patterns,
                   outcome_log, index_log>>
    /\ UNCHANGED service_vars

\* the appends index_user_profile makes for the capabilities caps of profile
\* p, in program order, each as <<key, posting>>
RECURSIVE PendingAppends(_, _)
PendingAppends(p, caps) ==
    IF caps = <<>> THEN <<>>
    ELSE [i \in 1..Len(IndexKeys(Head(caps))) |->
             <<IndexKeys(Head(caps))[i], <<p, Head(caps)>>>>]
         \o PendingAppends(p, Tail(caps))

\* index_user_profile run by thread t, one append at a time; no lock is
\* taken, so other threads run between the appends.
\* entering index_user_profile(profile)
IX_enter(t, p, max_calls) ==
    /\ engine = "CapabilityMatcher"
    /\ threads[t].pc = "idle"
    /\ Len(index_log) < max_calls
    /\ UNCHANGED auth_vars
    /\ threads' = [threads EXCEPT
                     ![t] = IF UserProfile[p].capabilities = <<>> THEN IdleThread
                            ELSE [pc |-> "index", profile |-> p,
                                  pending |-> PendingAppends(p, UserProfile[p].capabilities)]]
    /\ index_log' = Append(index_log, p)
    /\ last_op' = "index_user_profile:enter"
    /\ UNCHANGED <<engine, EMBEDDINGS_AVAILABLE, config, capability_index,
                   memory_capabilities, match_history, success_patterns,
                   outcome_log, last_call,
                   db, profile_cache, response, request_count, explanation>>

\* self.capability_index[key].append((profile, capability))
IX_append(t) ==
    /\ threads[t].pc = "index"
    /\ capability_index' =
          AppendPosting(capability_index, Head(threads[t].pending)[1],
                        Head(threads[t].pending)[2])
    /\ UNCHANGED auth_vars
    /\ threads' = [threads EXCEPT
                     ![t] = IF Len(threads[t].pending) = 1 THEN IdleThread
                            ELSE [threads[t] EXCEPT !.pending = Tail(@)]]
    /\ last_op' = IF Len(threads[t].pending) = 1 THEN "index_user_profile"
                  ELSE "index_user_profile:append"
    /\ UNCHANGED <<engine, EMBEDDINGS_AVAILABLE, config,
                   memory_capabilities, match_history, success_patterns,
                   outcome_log, index_log, last_call,
                   db, profile_cache, response, request_count, explanation>>

\* learn_from_outcome run by thread t, one statement at a time; no lock is
\* taken, so the statements of different threads interleave.
\* self.match_history.append(match)
LT_append(t, m, success, max_calls) ==
    /\ engine = "CapabilityMatcher"
    /\ threads[t].pc = "idle"
    /\ Len(match_history) < max_calls
    /\ match_history' = Append(match_history, m)
    /\ outcome_log' = Append(outcome_log, success)
    /\ UNCHANGED auth_vars
    /\ threads' = [threads EXCEPT ![t] = [pc |-> "check", match |-> m,
                                          success |-> success, current |-> 0]]
    /\ last_op' = "learn_from_outcome:append"
    /\ UNCHANGED <<engine, EMBEDDINGS_AVAILABLE, config, capability_index,
                   memory_capabilities, success_patterns, index_log, last_call,
                   db, profile_cache, response, request_count, explanation>>

\* if pattern_key not in self.success_patterns
LT_check(t) ==
    /\ threads[t].pc = "check"
    /\ UNCHANGED auth_vars
    /\ threads' = [threads EXCEPT
                     ![t].pc = IF PatternKey(threads[t].match) \notin DOMAIN success_patterns
                               THEN "init" ELSE "read"]
    /\ last_op' = "learn_from_outcome:check"
    /\ UNCHANGED <<engine, EMBEDDINGS_AVAILABLE, config, capability_index,
                   memory_capabilities, match_history, success_patterns,
                   outcome_log, index_log, last_call,
                   db, profile_cache, response, request_count, explanation>>

\* self.success_patterns[pattern_key] = match.match_score if success else 0.0
LT_init(t) ==
    /\ threads[t].pc = "init"
    /\ success_patterns' =
          LET key == PatternKey(threads[t].match)
              value == IF threads[t].success THEN threads[t].match.match_score ELSE 0
          IN  IF key \in DOMAIN success_patterns
              THEN [success_patterns EXCEPT ![key] = value]
              ELSE success_patterns @@ (key :> value)
    /\ UNCHANGED auth_vars
    /\ threads' = [threads EXCEPT ![t].pc = "idle"]
    /\ last_op' = "learn_from_outcome"
    /\ UNCHANGED <<engine, EMBEDDINGS_AVAILABLE, config, capability_index,
                   memory_capabilities, match_history,
                   outcome_log, index_log, last_call,
                   db, profile_cache, response, request_count, explanation>>

\* current = self.success_patterns[pattern_key]
LT_read(t) ==
    /\ threads[t].pc = "read"
    /\ UNCHANGED auth_vars
    /\ threads' = [threads EXCEPT
                     ![t].pc = "write",
                     ![t].current = success_patterns[PatternKey(threads[t].match)]]
    /\ last_op' = "learn_from_outcome:read"
    /\ UNCHANGED <<engine, EMBEDDINGS_AVAILABLE, config, capability_index,
                   memory_capabilities, match_history, success_patterns,
                   outcome_log, index_log, last_call,
                   db, profile_cache, response, request_count, explanation>>

\* self.success_patterns[pattern_key] = alpha * new_value + (1 - alpha) * current
LT_write(t) ==
    /\ threads[t].pc = "write"
    /\ success_patterns' =
          LET new_value == IF threads[t].success THEN threads[t].match.match_score ELSE 0
          IN  [success_patterns EXCEPT
                 ![PatternKey(threads[t].match)] =
                     Times(3000, new_value) + Times(ONE - 3000, threads[t].current)]
    /\ UNCHANGED auth_vars
    /\ threads' = [threads EXCEPT ![t].pc = "idle"]
    /\ last_op' = "learn_from_outcome"
    /\ UNCHANGED <<engine, EMBEDDINGS_AVAILABLE, config, capability_index,
                   memory_capabilities, match_history,
                   outcome_log, index_log, last_call,
                   db, profile_cache, response, request_count, explanation>>

\* the pairs of capabilities that find_optimal_matching scores for a need of
\* need_profile: those of other users
BatchPairs(need_profile, capabilities) ==
    SelectSeq(capabilities,
              LAMBDA e : UserProfile[need_profile].user_id # UserProfile[e[1]].user_id)

\* the index after self.matcher.index_user_profile(cap_profile) for every pair
RECURSIVE BatchIndexPairs(_, _)
BatchIndexPairs(index, pairs) ==
    IF pairs = <<>> THEN index
    ELSE BatchIndexPairs(index_user_profile(index, Head(pairs)[1]), Tail(pairs))

\* the index after the loop over needs of find_optimal_matching
RECURSIVE BatchIndex(_, _, _)
BatchIndex(index, needs, capabilities) ==
    IF needs = <<>> THEN index
    ELSE BatchIndex(BatchIndexPairs(index, BatchPairs(Head(needs)[1], capabilities)),
                    Tail(needs), capabilities)

\* the profile arguments of the index_user_profile calls of find_optimal_matching
RECURSIVE BatchIndexCalls(_, _)
BatchIndexCalls(needs, capabilities) ==
    IF needs = <<>> THEN <<>>
    ELSE LET pairs == BatchPairs(Head(needs)[1], capabilities)
         IN  [i \in 1..Len(pairs) |-> pairs[i][1]]
             \o BatchIndexCalls(Tail(needs), capabilities)

\* matches[:10] of one need, sorted by score
BatchMatches(cfg, history, need_entry, capabilities) ==
    LET pairs == BatchPairs(need_entry[1], capabilities)
    IN  Truncate(SortByScoreDesc([i \in 1..Len(pairs) |->
                    score_match(cfg, history, need_entry[2], need_entry[1],
                                pairs[i][2], pairs[i][1])]), 10)

\* BatchMatcher.find_optimal_matching
BM_find_optimal_matching(needs, capabilities, max_calls) ==
    /\ engine = "CapabilityMatcher"
    /\ Len(index_log) + Len(BatchIndexCalls(needs, capabilities)) <= max_calls
    /\ capability_index' = BatchIndex(capability_index, needs, capabilities)
    /\ index_log' = index_log \o BatchIndexCalls(needs, capabilities)
    /\ last_call' = [status |-> "batch", needs |-> needs, capabilities |-> capabilities,
                     all_matches |->
                        [i \in 1..Len(needs) |->
                            BatchMatches(config, match_history, needs[i], capabilities)]]
    /\ last_op' = "find_optimal_matching"
    /\ UNCHANGED <<engine, EMBEDDINGS_AVAILABLE, config, memory_capabilities,
                   match_history, success_patterns, outcome_log>>
    /\ UNCHANGED service_vars

\* a direct call of _compute_complementarity on two profiles, given by the
\* sets of (type, name) pairs of their capabilities
CM_compute_complementarity(user1_caps, user2_caps) ==
    /\ engine = "CapabilityMatcher"
    /\ last_call' = [status |-> "computed",
                     user1_caps |-> user1_caps, user2_caps |-> user2_caps,
                     complementarity |-> complementarity_of_caps(user1_caps, user2_caps)]
    /\ last_op' = "_compute_complementarity"
    /\ UNCHANGED <<engine, EMBEDDINGS_AVAILABLE, config, capability_index,
                   memory_capabilities, match_history, success_patterns,
                   outcome_log, index_log>>
    /\ UNCHANGED service_vars

SM_index_user_profile(p, max_calls) ==
    /\ engine = "SemanticMatcher"
    /\ Len(index_log) < max_calls
    /\ memory_capabilities' =
           sm_index_user_profile(memory_capabilities, p, EMBEDDINGS_AVAILABLE)
    /\ index_log' = Append(index_log, p)
    /\ last_op' = "index_user_profile"
    /\ UNCHANGED <<engine, EMBEDDINGS_AVAILABLE, config, capability_index,
                   match_history, success_patterns, outcome_log, last_call>>
    /\ UNCHANGED service_vars

SM_find_matches(n, requester, max_results, cosine) ==
    /\ engine = "SemanticMatcher"
    /\ last_call' = sm_find_matches(memory_capabilities, match_history, config,
                                    n, requester, max_results,
                                    EMBEDDINGS_AVAILABLE, cosine)
    /\ last_op' = "find_matches"
    /\ UNCHANGED <<engine, EMBEDDINGS_AVAILABLE, config, capability_index,
                   memory_capabilities, match_history, success_patterns,
                   outcome_log, index_log>>
    /\ UNCHANGED service_vars

\* explain_match on a Match
TE_explain_match(m) ==
    /\ explanation' = [call |-> "explain_match", match |-> m, result |-> explain_match(m)]
    /\ last_op' = "explain_match"
    /\ UNCHANGED <<engine, EMBEDDINGS_AVAILABLE, config, capability_index,
                   memory_capabilities, match_history, success_patterns,
                   outcome_log, index_log, last_call,
                   db, profile_cache, response, request_count, threads, auth_vars>>

\* generate_verification_protocol on a decision object
TE_generate_verification_protocol(decision, decision_type) ==
    /\ explanation' = [call |-> "generate_verification_protocol",
                       decision |-> decision, decision_type |-> decision_type,
                       result |-> generate_verification_protocol(decision, decision_type)]
    /\ last_op' = "generate_verification_protocol"
    /\ UNCHANGED <<engine, EMBEDDINGS_AVAILABLE, config, capability_index,
                   memory_capabilities, match_history, success_patterns,
                   outcome_log, index_log, last_call,
                   db, profile_cache, response, request_count, threads, auth_vars>>

-----------------------------------------------------------------------------
(* The REST API (web/backend/api.py) *)

\* bodies of POST /profiles: the profile they describe, and for each
\* capability the type and privacy_level strings, and the domain strings
ProfileCreate ==
    [okAlice |-> [profile |-> "pAlice",
                  capabilities |-> <<[type |-> "knowledge", privacy_level |-> "network"]>>,
                  domains |-> {"robotics"}],
     okBob |-> [profile |-> "pBob",
                capabilities |-> <<[type |-> "skill", privacy_level |-> "public"],
                                   [type |-> "skill", privacy_level |-> "network"]>>,
                domains |-> {}],
     badType |-> [profile |-> "pCarol",
                  capabilities |-> <<[type |-> "skill", privacy_level |-> "network"],
                                     [type |-> "equipment", privacy_level |-> "network"]>>,
                  domains |-> {"robotics"}],
     badPrivacy |-> [profile |-> "pCarol",
                     capabilities |-> <<[type |-> "skill", privacy_level |-> "secret"],
                                        [type |-> "resource", privacy_level |-> "network"]>>,
                     domains |-> {"robotics"}],
     badDomain |-> [profile |-> "pCarol",
                    capabilities |-> <<[type |-> "skill", privacy_level |-> "network"],
                                       [type |-> "resource", privacy_level |-> "network"]>>,
                    domains |-> {"robotics", "alchemy"}]]

\* bodies of POST /needs
NeedCreate ==
    [okNeed |-> [need |-> "n1", user_id |-> "alice", type |-> "skill",
                 domain |-> "robotics"],
     badNeedType |-> [need |-> "n1", user_id |-> "alice", type |-> "magic",
                      domain |-> "robotics"],
     badNeedDomain |-> [need |-> "n3", user_id |-> "bob", type |-> "skill",
                        domain |-> "alchemy"]]

\* match ids used in requests; only the first is ever saved
MatchIds == {"m1", "m2"}
SavedMatchIds == {"m1"}

\* the Match saved under a match id
SavedMatch == score_match(DefaultMatchingConfig, <<>>, "n1", "pAlice", "b1", "pBob")

\* an enum conversion that accepts any string
EnumRaises_Never(members, value) == FALSE

\* Enum(value) raises ValueError for a value that is no member
EnumRaises(members, value) == value \notin members

\* the conversions of create_profile raise
ProfileCreateRaises(data) ==
    \/ \E i \in 1..Len(data.capabilities) :
          \/ EnumRaises(CapabilityType, data.capabilities[i].type)
          \/ EnumRaises(PrivacyLevel, data.capabilities[i].privacy_level)
    \/ \E d \in data.domains : EnumRaises(ProblemDomain, d)

\* the conversions of create_need raise
NeedCreateRaises(data) ==
    \/ EnumRaises(CapabilityType, data.type)
    \/ EnumRaises(ProblemDomain, data.domain)

\* POST /profiles
API_create_profile(req) ==
    /\ engine = "SemanticMatcher"
    /\ request_count < MaxRequests
    /\ request_count' = request_count + 1
    /\ last_op' = "create_profile"
    /\ IF ProfileCreateRaises(ProfileCreate[req])
       THEN /\ response' = [endpoint |-> "create_profile", request |-> req,
                            status |-> "error"]
            /\ UNCHANGED <<db, memory_capabilities, index_log, profile_cache>>
       ELSE /\ db' = save_user_profile(db, ProfileCreate[req].profile)
            /\ memory_capabilities' =
                   sm_index_user_profile(memory_capabilities, ProfileCreate[req].profile,
                                         EMBEDDINGS_AVAILABLE)
            /\ index_log' = Append(index_log, ProfileCreate[req].profile)
            /\ profile_cache' =
                   Upsert(profile_cache, UserProfile[ProfileCreate[req].profile].user_id,
                          ProfileCreate[req].profile)
            /\ response' = [endpoint |-> "create_profile", request |-> req,
                            status |-> "success"]
    /\ UNCHANGED <<engine, EMBEDDINGS_AVAILABLE, config, capability_index,
                   match_history, success_patterns, outcome_log, last_call>>
    /\ UNCHANGED <<explanation, threads, auth_vars>>

\* POST /needs
API_create_need(req) ==
    /\ engine = "SemanticMatcher"
    /\ request_count < MaxRequests
    /\ request_count' = request_count + 1
    /\ last_op' = "create_need"
    /\ IF NeedCreateRaises(NeedCreate[req])
       THEN /\ response' = [endpoint |-> "create_need", request |-> req,
                            status |-> "error"]
            /\ UNCHANGED db
       ELSE /\ db' = save_need(db, NeedCreate[req].need, NeedCreate[req].user_id)
            /\ response' = [endpoint |-> "create_need", request |-> req,
                            status |-> "success"]
    /\ UNCHANGED <<engine, EMBEDDINGS_AVAILABLE, config, capability_index,
                   memory_capabilities, match_history, success_patterns,
                   outcome_log, index_log, last_call, profile_cache>>
    /\ UNCHANGED <<explanation, threads, auth_vars>>

\* a component stores a proposed match: SubstrateDatabase.save_match
DB_save_match(match_id, m) ==
    /\ engine = "SemanticMatcher"
    /\ request_count < MaxRequests
    /\ request_count' = request_count + 1
    /\ last_op' = "save_match"
    /\ db' = save_match(db, match_id, m)
    /\ UNCHANGED <<engine, EMBEDDINGS_AVAILABLE, config, capability_index,
                   memory_capabilities, match_history, success_patterns,
                   outcome_log, index_log, last_call, profile_cache, response>>
    /\ UNCHANGED <<explanation, threads, auth_vars>>

\* POST /match/{match_id}/accept
API_accept_match(match_id) ==
    /\ engine = "SemanticMatcher"
    /\ request_count < MaxRequests
    /\ request_count' = request_count + 1
    /\ last_op' = "accept_match"
    /\ db' = update_match_status(db, match_id, "accepted")
    /\ response' = [endpoint |-> "accept_match", request |-> match_id, status |-> "success"]
    /\ UNCHANGED <<engine, EMBEDDINGS_AVAILABLE, config, capability_index,
                   memory_capabilities, match_history, success_patterns,
                   outcome_log, index_log, last_call, profile_cache>>
    /\ UNCHANGED <<explanation, threads, auth_vars>>

\* POST /match/{match_id}/reject
API_reject_match(match_id) ==
    /\ engine = "SemanticMatcher"
    /\ request_count < MaxRequests
    /\ request_count' = request_count + 1
    /\ last_op' = "reject_match"
    /\ db' = update_match_status(db, match_id, "rejected")
    /\ response' = [endpoint |-> "reject_match", request |-> match_id, status |-> "success"]
    /\ UNCHANGED <<engine, EMBEDDINGS_AVAILABLE, config, capability_index,
                   memory_capabilities, match_history, success_patterns,
                   outcome_log, index_log, last_call, profile_cache>>
    /\ UNCHANGED <<explanation, threads, auth_vars>>

\* POST /outcomes
API_report_outcome(match_id, success) ==
    /\ engine = "SemanticMatcher"
    /\ request_count < MaxRequests
    /\ request_count' = request_count + 1
    /\ last_op' = "report_outcome"
    /\ db' = update_match_status(save_outcome(db, match_id, success),
                                 match_id, "completed")
    /\ response' = [endpoint |-> "report_outcome", request |-> match_id,
                    status |-> "success"]
    /\ UNCHANGED <<engine, EMBEDDINGS_AVAILABLE, config, capability_index,
                   memory_capabilities, match_history, success_patterns,
                   outcome_log, index_log, last_call, profile_cache>>
    /\ UNCHANGED <<explanation, threads, auth_vars>>


IndexStep ==
    \E p \in Profiles : CM_index_user_profile(p, MaxIndexCalls)

FindStep ==
    \E n \in Needs, requester \in Profiles, max_results \in MaxResultsArgs :
        \E tag_order \in Orderings(Need[n].tags) :
            CM_find_matches(n, requester, max_results, tag_order)

SemanticIndexStep ==
    \E p \in Profiles : SM_index_user_profile(p, MaxIndexCalls)

SemanticFindStep ==
    \E n \in Needs, requester \in Profiles, max_results \in MaxResultsArgs :
        \E cosine \in [StoredCapabilities(memory_capabilities) -> CosineValues] :
            SM_find_matches(n, requester, max_results, cosine)

\* Indexing and matching, on either matcher, before any outcome is reported
Next ==
    \/ IndexStep
    \/ FindStep
    \/ SemanticIndexStep
    \/ SemanticFindStep

Spec == Init /\ [][Next]_vars

\* The CapabilityMatcher with outcome learning: one requester asks for the
\* single best match for its need and reports outcomes for the matches it got
LearnRequester == "pAlice"
LearnNeeds == {"n3"}

InitLearn == Init /\ engine = "CapabilityMatcher"

LearnIndexStep ==
    \E p \in Profiles \ {LearnRequester} : CM_index_user_profile(p, MaxIndexCallsLearn)

LearnFindStep ==
    \E n \in LearnNeeds :
        \E tag_order \in Orderings(Need[n].tags) :
            CM_find_matches(n, LearnRequester, <<1>>, tag_order)

LearnStep ==
    \E i \in 1..Len(last_call.returned), success \in BOOLEAN :
        CM_learn_from_outcome(last_call.returned[i], success, MaxHistoryLearn)

NextLearn ==
    \/ LearnIndexStep
    \/ LearnFindStep
    \/ LearnStep

SpecLearn == InitLearn /\ [][NextLearn]_vars

\* The scorer of the CapabilityMatcher on its own, for every need, pair of
\* profiles and capability
ScoreStep ==
    \E n \in AllNeeds, need_profile \in AllProfiles,
       c \in AllCapabilities, cap_profile \in AllProfiles :
        CM_score_match(n, need_profile, c, cap_profile)

NextScore == ScoreStep

SpecScore == InitLearn /\ [][NextScore]_vars

\* The complementarity of two profiles on its own: the first profile has the
\* capabilities named 1..k, the second those named lo..hi, of up to
\* MaxProfilePairs names of one type
PairUniverse == {<<"skill", name>> : name \in 1..MaxProfilePairs}

PairsNamed(names) == {<<"skill", name>> : name \in names}

ComplementarityStep ==
    \E k \in 0..MaxProfilePairs, lo \in 1..MaxProfilePairs, hi \in 0..MaxProfilePairs :
        CM_compute_complementarity(PairsNamed(1..k), PairsNamed(lo..hi))

NextComplementarity == ComplementarityStep

SpecComplementarity == InitLearn /\ [][NextComplementarity]_vars

\* Two threads reporting outcomes to one CapabilityMatcher, for matches of
\* one requester's skill need with skill capabilities of three owners
ConcurrentMatches ==
    {score_match(DefaultMatchingConfig, <<>>, "n1", "pAlice", e[2], e[1]) :
        e \in {<<"pBob", "b1">>, <<"pCarol", "c1">>, <<"pDave", "d1">>}}

AppendStatement ==
    \E t \in Threads, m \in ConcurrentMatches, success \in BOOLEAN :
        LT_append(t, m, success, MaxLearnCalls)

CheckStatement == \E t \in Threads : LT_check(t)

InitStatement == \E t \in Threads : LT_init(t)

ReadStatement == \E t \in Threads : LT_read(t)

WriteStatement == \E t \in Threads : LT_write(t)

NextConcurrent ==
    \/ AppendStatement
    \/ CheckStatement
    \/ InitStatement
    \/ ReadStatement
    \/ WriteStatement

SpecConcurrent == InitLearn /\ [][NextConcurrent]_vars

\* The CapabilityMatcher scoring with what it learned: one requester asks for
\* matches of two needs and reports outcomes for the matches it got
BoostRequester == "pAlice"
BoostNeeds == {"n1", "n2"}

BoostIndexStep ==
    \E p \in Profiles \ {BoostRequester} : CM_index_user_profile(p, MaxIndexCallsBoost)

BoostFindStep ==
    \E n \in BoostNeeds :
        \E tag_order \in Orderings(Need[n].tags) :
            CM_find_matches(n, BoostRequester, <<>>, tag_order)

BoostLearnStep ==
    \E i \in 1..Len(last_call.returned), success \in BOOLEAN :
        CM_learn_from_outcome(last_call.returned[i], success, MaxHistoryBoost)

NextBoost ==
    \/ BoostIndexStep
    \/ BoostFindStep
    \/ BoostLearnStep

SpecBoost == InitLearn /\ [][NextBoost]_vars

\* The BatchMatcher over a CapabilityMatcher that is also indexed and queried
BatchNeedLists ==
    {<<>>, << <<"pAlice", "n1">> >>, << <<"pAlice", "n1">>, <<"pBob", "n2">> >>}

BatchCapabilityLists ==
    {<<>>, << <<"pBob", "b1">> >>, << <<"pAlice", "a1">>, <<"pCarol", "c1">> >>}

BatchIndexStep ==
    \E p \in Profiles : CM_index_user_profile(p, MaxIndexCallsBatch)

BatchStep ==
    \E needs \in BatchNeedLists, capabilities \in BatchCapabilityLists :
        BM_find_optimal_matching(needs, capabilities, MaxIndexCallsBatch)

BatchFindStep ==
    \E n \in Needs, requester \in Profiles :
        \E tag_order \in Orderings(Need[n].tags) :
            CM_find_matches(n, requester, <<>>, tag_order)

NextBatch ==
    \/ BatchIndexStep
    \/ BatchStep
    \/ BatchFindStep

SpecBatch == InitLearn /\ [][NextBatch]_vars

\* learn_from_outcome on its own, for matches of two type pairs
RecordMatches ==
    {score_match(DefaultMatchingConfig, <<>>, "n1", "pAlice", e[2], e[1]) :
        e \in {<<"pBob", "b1">>, <<"pCarol", "c1">>, <<"pCarol", "c2">>}}

RecordStep ==
    \E m \in RecordMatches, success \in BOOLEAN :
        CM_learn_from_outcome(m, success, MaxHistoryRecord)

NextRecord == RecordStep

SpecRecord == InitLearn /\ [][NextRecord]_vars

\* One thread indexing profiles on a CapabilityMatcher while find_matches is
\* called by another
Indexer == "t1"

RaceEnterStep == \E p \in Profiles : IX_enter(Indexer, p, MaxIndexCallsRace)

RaceAppendStep == IX_append(Indexer)

RaceFindStep ==
    \E n \in Needs, requester \in Profiles :
        \E tag_order \in Orderings(Need[n].tags) :
            CM_find_matches(n, requester, <<>>, tag_order)

NextRace ==
    \/ RaceEnterStep
    \/ RaceAppendStep
    \/ RaceFindStep

SpecRace == InitLearn /\ [][NextRace]_vars

\* The CapabilityMatcher with the TransparencyEngine explaining what it returns
DecisionTypes == {"match", "team", "other"}

ExplainIndexStep ==
    \E p \in Profiles : CM_index_user_profile(p, MaxIndexCallsExplain)

ExplainFindStep ==
    \E n \in Needs, requester \in Profiles :
        \E tag_order \in Orderings(Need[n].tags) :
            CM_find_matches(n, requester, <<>>, tag_order)

ExplainStep ==
    \E i \in 1..Len(last_call.returned) : TE_explain_match(last_call.returned[i])

\* the decision passed is one of the returned matches or None
ProtocolStepOfCall ==
    \E decision \in {last_call.returned[i] : i \in 1..Len(last_call.returned)}
                        \cup {<<>>},
       decision_type \in DecisionTypes :
        TE_generate_verification_protocol(decision, decision_type)

NextExplain ==
    \/ ExplainIndexStep
    \/ ExplainFindStep
    \/ ExplainStep
    \/ ProtocolStepOfCall

SpecExplain == InitLearn /\ [][NextExplain]_vars

\* The API over the database and the SemanticMatcher
InitApi == Init /\ engine = "SemanticMatcher"

CreateProfileStep == \E req \in DOMAIN ProfileCreate : API_create_profile(req)

CreateNeedStep == \E req \in DOMAIN NeedCreate : API_create_need(req)

SaveMatchStep == \E match_id \in SavedMatchIds : DB_save_match(match_id, SavedMatch)

AcceptStep == \E match_id \in MatchIds : API_accept_match(match_id)

RejectStep == \E match_id \in MatchIds : API_reject_match(match_id)

OutcomeStep ==
    \E match_id \in MatchIds, success \in BOOLEAN : API_report_outcome(match_id, success)

NextApi ==
    \/ CreateProfileStep
    \/ CreateNeedStep
    \/ SaveMatchStep
    \/ AcceptStep
    \/ RejectStep
    \/ OutcomeStep

SpecApi == InitApi /\ [][NextApi]_vars

-----------------------------------------------------------------------------
(* Properties of find_matches *)

\* the (owner user_id, capability_id) pair a returned Match stands for
MatchKey(m) == <<m.capability_user_id, Capability[m.capability].capability_id>>

\* position of a Match's candidate in the list retrieval produced
CandidatePosition(m) ==
    CHOOSE k \in 1..Len(last_call.candidates) :
        CandidateKey(last_call.candidates[k]) = MatchKey(m)

\* every posting the need's keys reach in the current index, before
\* deduplication and the self-match filter
RawPostings(n) ==
    ExtendAll(capability_index, QueryKeys(n, SetToSeq(Need[n].tags)))

\* C1: no Match returned by find_matches has need_user_id equal to
\* capability_user_id: a user is never matched with their own capability.
C1_NoSelfMatch ==
    \A i \in 1..Len(last_call.returned) :
        /\ last_call.returned[i].need_user_id
              = UserProfile[last_call.need_user_profile].user_id
        /\ last_call.returned[i].capability_user_id
              # last_call.returned[i].need_user_id

\* a call that returned matches although the requester's own capability was
\* among the postings its keys reached
C1_Witness ==
    /\ last_op = "find_matches"
    /\ engine = "CapabilityMatcher"
    /\ last_call.returned # <<>>
    /\ \E i \in 1..Len(RawPostings(last_call.need)) :
          RawPostings(last_call.need)[i][1] = last_call.need_user_profile

\* C2: every Match returned by find_matches has match_score >= the
\* configured min_match_score; the filter acts on the scored candidates,
\* before sorting and truncation, whatever the index and the history hold.
C2_ThresholdRespected ==
    /\ \A i \in 1..Len(last_call.returned) :
          last_call.returned[i].match_score >= config.min_match_score
    /\ last_call.status = "returned" /\ engine = "CapabilityMatcher" =>
          \A i \in 1..Len(last_call.scored) :
              last_call.scored[i].match_score < config.min_match_score =>
                  \A j \in 1..Len(last_call.returned) :
                      MatchKey(last_call.returned[j]) # MatchKey(last_call.scored[i])

\* a call with recorded history that returned a match and left out a scored
\* candidate below the threshold
C2_Witness ==
    /\ last_op = "find_matches"
    /\ match_history # <<>>
    /\ last_call.returned # <<>>
    /\ \E i \in 1..Len(last_call.scored) :
          last_call.scored[i].match_score < config.min_match_score

\* C3: the returned list is in non-increasing match_score order, and matches
\* of equal score keep the order in which retrieval produced them.
C3_SortedStable ==
    \A i \in 1..Len(last_call.returned), j \in 1..Len(last_call.returned) :
        i < j =>
          /\ last_call.returned[i].match_score >= last_call.returned[j].match_score
          /\ last_call.returned[i].match_score = last_call.returned[j].match_score
                => CandidatePosition(last_call.returned[i])
                     < CandidatePosition(last_call.returned[j])

\* a call whose scored candidates were out of order and held a tie, all returned
C3_Witness ==
    /\ last_op = "find_matches"
    /\ Len(last_call.returned) >= 3
    /\ \E i \in 1..Len(last_call.scored), j \in 1..Len(last_call.scored) :
          i < j /\ last_call.scored[i].match_score < last_call.scored[j].match_score
    /\ \E i \in 1..Len(last_call.returned), j \in 1..Len(last_call.returned) :
          /\ i < j
          /\ last_call.returned[i].match_score = last_call.returned[j].match_score

\* the scored candidates of the last call that pass the threshold
NumPassing ==
    Cardinality({i \in 1..Len(last_call.scored) :
                    last_call.scored[i].match_score >= config.min_match_score})

\* C4: when the caller passes max_results = k, for any integer k >= 0, with
\* n candidates passing the threshold, the returned list has exactly
\* min(k, n) entries; config.max_matches_per_need is used only when
\* max_results is omitted.
C4_ExactlyMinKN ==
    /\ last_call.status = "returned" /\ last_call.max_results # <<>> =>
          Len(last_call.returned) = Min(last_call.max_results[1], NumPassing)
    /\ last_call.status = "returned" /\ last_call.max_results = <<>> =>
          Len(last_call.returned) = Min(config.max_matches_per_need, NumPassing)

\* no two entries of a sequence of postings name the same (user_id, capability_id)
PostingsDistinct(postings) ==
    \A i \in 1..Len(postings), j \in 1..Len(postings) :
        i # j => CandidateKey(postings[i]) # CandidateKey(postings[j])

\* C5: index_user_profile is idempotent per capability id: however often a
\* profile is indexed, every posting list of the index holds each
\* (user_id, capability_id) pair at most once.
C5_PostingListsDistinct ==
    /\ \A key \in DOMAIN capability_index : PostingsDistinct(capability_index[key])
    /\ PostingsDistinct(memory_capabilities)

\* C6: the candidate list retrieval produces holds each
\* (user_id, capability_id) pair at most once, also after a profile was
\* indexed repeatedly, so find_matches never returns two Matches for the
\* same owner and capability.
C6_CandidatesDistinct ==
    /\ engine = "CapabilityMatcher" => PostingsDistinct(last_call.candidates)
    /\ \A i \in 1..Len(last_call.returned), j \in 1..Len(last_call.returned) :
          i # j => MatchKey(last_call.returned[i]) # MatchKey(last_call.returned[j])

\* a call on an index in which a profile was indexed twice, the postings
\* reached holding one pair several times, that returned two matches or more
C6_Witness ==
    /\ last_op = "find_matches"
    /\ engine = "CapabilityMatcher"
    /\ \E i \in 1..Len(index_log), j \in 1..Len(index_log) :
          i # j /\ index_log[i] = index_log[j]
    /\ ~PostingsDistinct(RawPostings(last_call.need))
    /\ Len(last_call.returned) >= 2

\* no key the need is looked up under has a posting in the index
NoKeyMatches(n) ==
    \A tag_order \in Orderings(Need[n].tags) :
        \A i \in 1..Len(QueryKeys(n, tag_order)) :
            \/ QueryKeys(n, tag_order)[i] \notin DOMAIN capability_index
            \/ capability_index[QueryKeys(n, tag_order)[i]] = <<>>

\* C7: when no index key matches the need, find_matches raises no error and
\* returns the empty list, and its provenance records exactly one
\* candidate-retrieval step, whose candidate count is 0.
C7_EmptyRetrieval ==
    last_op = "find_matches" /\ engine = "CapabilityMatcher"
        /\ NoKeyMatches(last_call.need) =>
            /\ last_call.status = "returned"
            /\ last_call.returned = <<>>
            /\ Len(last_call.provenance) = 1
            /\ last_call.provenance[1].operation = "candidate_retrieval"
            /\ last_call.provenance[1].output = 0

\* a call on a filled index for a need none of whose keys is in it
C7_Witness ==
    /\ last_op = "find_matches"
    /\ engine = "CapabilityMatcher"
    /\ DOMAIN capability_index # {}
    /\ NoKeyMatches(last_call.need)

-----------------------------------------------------------------------------
(* Properties of the scores *)

\* C8: the combined match_score of every Match the scorer produces lies in
\* [0, 1], for all inputs, weights and history (the combination is clamped).
C8_MatchScoreInUnitInterval ==
    \A i \in 1..Len(last_call.scored) :
        /\ last_call.scored[i].match_score >= 0
        /\ last_call.scored[i].match_score <= ONE

\* the token set _compute_semantic_similarity builds for a need / a capability
NeedTokens(n) == TokenSet(Need[n].name, Need[n].description, Need[n].tags)
CapabilityTokens(c) ==
    TokenSet(Capability[c].name, Capability[c].description, Capability[c].tags)

\* C9: each lexical sub-score lies in [0, 1]: the Jaccard similarity, which
\* is 0 (and no exception) when either token set is empty, the
\* complementarity and the feasibility.
C9_SubScoresInUnitInterval ==
    \A i \in 1..Len(last_call.scored) :
        LET m == last_call.scored[i]
            similarity == m.provenance[1].output
        IN  /\ m.provenance[1].operation = "semantic_similarity"
            /\ similarity >= 0 /\ similarity <= ONE
            /\ NeedTokens(m.need) = {} \/ CapabilityTokens(m.capability) = {}
                  => similarity = 0
            /\ m.complementarity_score >= 0 /\ m.complementarity_score <= ONE
            /\ m.feasibility_score >= 0 /\ m.feasibility_score <= ONE

\* a pair scored for a need without tokens, between two users whose
\* capability sets coincide, so that the unclamped complementarity is negative
C9_Witness ==
    /\ last_op = "_score_match"
    /\ NeedTokens(last_call.need) = {}
    /\ LET p1 == last_call.need_user_profile
           p2 == last_call.candidates[1][1]
       IN  /\ p1 # p2
           /\ TypeNamePairs(p1) # {}
           /\ TypeNamePairs(p1) = TypeNamePairs(p2)
    /\ last_call.scored[1].complementarity_score = 0
    /\ last_call.scored[1].provenance[1].output = 0

\* the history holds five matches of need type skill and capability type
\* skill, every one reported as a success
FiveSkillSuccesses ==
    /\ Len(match_history) = 5
    /\ \A i \in 1..Len(match_history) :
          /\ outcome_log[i]
          /\ Need[match_history[i].need].type = "skill"
          /\ Capability[match_history[i].capability].type = "skill"

\* C10: after 5 successful outcomes were recorded by learn_from_outcome for
\* matches of need type skill and capability type skill, whatever their
\* match_score, scoring a skill/skill pair gives a strictly higher
\* match_score than scoring the same inputs with empty history.
C10_SuccessesRaiseScore ==
    last_op = "find_matches" /\ FiveSkillSuccesses =>
        \A i \in 1..Len(last_call.scored) :
            LET m == last_call.scored[i]
                cand == last_call.candidates[i]
            IN  Need[m.need].type = "skill" /\ Capability[m.capability].type = "skill"
                  => m.match_score
                       > score_match(config, <<>>, m.need, last_call.need_user_profile,
                                     cand[2], cand[1]).match_score

-----------------------------------------------------------------------------
(* Properties of the API and the database *)

\* the edges of the match lifecycle
LifecycleEdges ==
    {<<"proposed", "accepted">>, <<"proposed", "rejected">>, <<"accepted", "completed">>}

\* C11: under any sequence of accept, reject and outcome-report requests the
\* stored status of a match changes only along proposed->accepted,
\* proposed->rejected and accepted->completed: rejected and completed are
\* never left, completed is never entered from proposed or rejected.
C11_LifecycleOnly ==
    [][last_op' \in {"accept_match", "reject_match", "report_outcome"} =>
         \A match_id \in DOMAIN db.matches :
            /\ match_id \in DOMAIN db'.matches
            /\ \/ db'.matches[match_id].status = db.matches[match_id].status
               \/ <<db.matches[match_id].status, db'.matches[match_id].status>>
                     \in LifecycleEdges]_vars

-----------------------------------------------------------------------------
(* Properties of the TransparencyEngine *)

\* C12: for every Match, explain_match(match).reasoning.step_by_step has as
\* many entries as match.provenance has steps, and entry i, numbered i from
\* 1, carries the operation, reasoning and confidence of the i-th step.
C12_StepByStepMirrorsProvenance ==
    explanation.call = "explain_match" =>
        LET steps == explanation.result.reasoning.step_by_step
            provenance == explanation.match.provenance
        IN  /\ Len(steps) = Len(provenance)
            /\ \A i \in 1..Len(steps) :
                  /\ steps[i].step = i
                  /\ steps[i].operation = provenance[i].operation
                  /\ steps[i].reasoning = provenance[i].reasoning
                  /\ steps[i].confidence = provenance[i].confidence

\* an explained Match whose provenance has four steps with different
\* operations, some of them of low confidence
C12_Witness ==
    /\ explanation.call = "explain_match"
    /\ Len(explanation.match.provenance) = 4
    /\ explanation.match.provenance[1].operation
          # explanation.match.provenance[4].operation
    /\ explanation.match.provenance[4].confidence < 8000

\* C13: for every Match produced by scoring, the confidence interval
\* (lower, upper) reported by explain_match satisfies
\* 0 <= lower <= match_score <= upper <= 1.
C13_IntervalBracketsScore ==
    explanation.call = "explain_match" =>
        LET interval == explanation.result.uncertainty.confidence_interval
            match_score == explanation.match.match_score
        IN  /\ 0 <= interval[1]
            /\ interval[1] <= match_score
            /\ match_score <= interval[2]
            /\ interval[2] <= ONE

\* C14: generate_verification_protocol depends only on the kind: for "match"
\* it returns the same 5 steps numbered 1..5 (capability alignment, evidence
\* check, complementarity assessment, feasibility check, human judgment),
\* for "team" the same 4 steps, whatever decision object is passed; every
\* step has action, how, what_to_look_for and red_flags.
C14_ProtocolFixedByKind ==
    explanation.call = "generate_verification_protocol" =>
        LET protocol == explanation.result
        IN  /\ explanation.decision_type = "match" =>
                  [i \in 1..Len(protocol) |-> protocol[i].action]
                    = <<"Check capability alignment", "Verify evidence",
                        "Assess complementarity", "Check feasibility",
                        "Trust your judgment">>
            /\ explanation.decision_type = "team" =>
                  [i \in 1..Len(protocol) |-> protocol[i].action]
                    = <<"Review team composition", "Assess synergies",
                        "Evaluate feasibility", "Review risk factors">>
            /\ \A i \in 1..Len(protocol) :
                  /\ protocol[i].step = i
                  /\ {"action", "how", "what_to_look_for", "red_flags"}
                        \subseteq DOMAIN protocol[i]
                  /\ protocol[i].how # "" /\ protocol[i].what_to_look_for # ""
                  /\ protocol[i].red_flags # <<>>

\* the match protocol asked for a returned Match that carries no evidence
C14_Witness ==
    /\ explanation.call = "generate_verification_protocol"
    /\ explanation.decision_type = "match"
    /\ explanation.decision # <<>>
    /\ explanation.decision.evidence = <<>>
    /\ Len(explanation.result) = 5

-----------------------------------------------------------------------------
(* Properties of the SemanticMatcher without an embedding provider *)

\* the capabilities an indexed profile of another user offers that have the
\* type of need n or share a tag with it
LexicallyMatching(n, requester) ==
    {<<index_log[i], c>> : i \in 1..Len(index_log), c \in AllCapabilities} \cap
    {e \in AllProfiles \X AllCapabilities :
        /\ UserProfile[e[1]].user_id # UserProfile[requester].user_id
        /\ \E k \in 1..Len(UserProfile[e[1]].capabilities) :
              UserProfile[e[1]].capabilities[k] = e[2]
        /\ \/ Capability[e[2]].type = Need[n].type
           \/ Need[n].tags \cap Capability[e[2]].tags # {}}

\* C15: with no embedding provider the semantic matcher still works through
\* the lexical fallback: after index_user_profile(P), where P has a
\* capability of the need's type or sharing a tag with it, find_matches for
\* another requester retrieves that capability as a candidate, scores it
\* with a similarity step of confidence at most 0.6 and adds the
\* degraded-mode uncertainty factor.
C15_LexicalFallbackRetrieves ==
    /\ engine = "SemanticMatcher"
    /\ ~EMBEDDINGS_AVAILABLE
    /\ last_op = "find_matches"
    =>
    \A e \in LexicallyMatching(last_call.need, last_call.need_user_profile) :
        \E i \in 1..Len(last_call.candidates) :
            /\ last_call.candidates[i] = e
            /\ i \in DOMAIN last_call.scored
            /\ last_call.scored[i].provenance[1].operation = "semantic_similarity"
            /\ last_call.scored[i].provenance[1].confidence <= 6000
            /\ \E k \in 1..Len(last_call.scored[i].uncertainty_factors) :
                  last_call.scored[i].uncertainty_factors[k]
                     = "No embeddings available (keyword fallback)"

-----------------------------------------------------------------------------
(* Determinism of find_matches *)

\* the ranked sequence of (capability_user_id, capability_id, match_score)
RankedTriples(matches) ==
    [i \in 1..Len(matches) |->
        <<matches[i].capability_user_id,
          Capability[matches[i].capability].capability_id,
          matches[i].match_score>>]

-----------------------------------------------------------------------------
(* Complementarity as a function of the overlap ratio *)

\* the overlap ratio |A \cap B| / |A \cup B| of two non-empty-union sets
OverlapRatio(user1_caps, user2_caps) ==
    (Cardinality(user1_caps \cap user2_caps) * ONE)
        \div Cardinality(user1_caps \cup user2_caps)

\* C17: complementarity as a function of the overlap ratio r is 0.6 at
\* r = 0, reaches its maximum 1.0 exactly at r = 0.20, and is monotonically
\* non-increasing as r moves away from 0.20 in either direction.
C17_ComplementarityPeaksAtOptimum ==
    last_op = "_compute_complementarity"
       /\ last_call.user1_caps \cup last_call.user2_caps # {} =>
        LET r == OverlapRatio(last_call.user1_caps, last_call.user2_caps)
            c == last_call.complementarity
        IN  /\ r = 0 => c = 6000
            /\ c <= ONE
            /\ c = ONE <=> r = 2000
            /\ \A a \in SUBSET PairUniverse, b \in SUBSET PairUniverse :
                  LET r2 == OverlapRatio(a, b)
                  IN  a \cup b # {}
                      /\ \/ r2 <= r /\ r <= 2000
                         \/ r2 >= r /\ r >= 2000
                      => complementarity_of_caps(a, b) <= c

\* complementarity computed for two profiles sharing one of five pairs
C17_Witness ==
    /\ last_op = "_compute_complementarity"
    /\ Cardinality(last_call.user1_caps \cap last_call.user2_caps) = 1
    /\ Cardinality(last_call.user1_caps \cup last_call.user2_caps) = 5
    /\ last_call.complementarity = ONE

-----------------------------------------------------------------------------
(* Properties of ingestion *)

\* the body of a create_profile request carries a string that is no member
\* of the enum it is converted to
MalformedProfile(data) ==
    \/ \E i \in 1..Len(data.capabilities) :
          \/ data.capabilities[i].type \notin CapabilityType
          \/ data.capabilities[i].privacy_level \notin PrivacyLevel
    \/ data.domains \ ProblemDomain # {}

MalformedNeed(data) == data.type \notin CapabilityType \/ data.domain \notin ProblemDomain

\* C18: a create_profile request in which a capability type, a privacy
\* level or a domain is no valid enum value, and a create_need request with
\* an invalid type or domain, is rejected with an error and leaves the
\* database, the matching index and the profile cache exactly as before.
C18_MalformedEnumRejected ==
    [][\/ /\ last_op' = "create_profile"
          /\ response'.endpoint = "create_profile"
          /\ MalformedProfile(ProfileCreate[response'.request])
       \/ /\ last_op' = "create_need"
          /\ response'.endpoint = "create_need"
          /\ MalformedNeed(NeedCreate[response'.request])
       => /\ response'.status = "error"
          /\ db' = db
          /\ memory_capabilities' = memory_capabilities
          /\ capability_index' = capability_index
          /\ profile_cache' = profile_cache]_vars

\* a malformed create_profile request was rejected by a service that
\* already stores a profile, with embeddings available to index it
C18_Witness ==
    /\ response.endpoint = "create_profile"
    /\ MalformedProfile(ProfileCreate[response.request])
    /\ response.status = "error"
    /\ DOMAIN db.users # {}
    /\ memory_capabilities # <<>>
    /\ DOMAIN profile_cache # {}

-----------------------------------------------------------------------------
(* Properties of outcome reporting *)

\* C19: reporting an outcome that references a match the system does not
\* know is a no-op that does not raise: stored outcomes, learning signals,
\* match statuses, match_history and success_patterns are all unchanged.
C19_UnknownMatchOutcomeNoOp ==
    [][/\ last_op' = "report_outcome"
       /\ response'.endpoint = "report_outcome"
       /\ response'.request \notin DOMAIN db.matches
       => /\ response'.status = "success"
          /\ db'.outcomes = db.outcomes
          /\ db'.learning_signals = db.learning_signals
          /\ db'.matches = db.matches
          /\ match_history' = match_history
          /\ success_patterns' = success_patterns]_vars

-----------------------------------------------------------------------------
(* Concurrent learn_from_outcome *)

\* success_patterns after the calls numbered order[1], order[2], ... of the
\* history were made one after another on an empty pattern table
RECURSIVE SequentialPatterns(_, _)
SequentialPatterns(order, patterns) ==
    IF order = <<>> THEN patterns
    ELSE SequentialPatterns(Tail(order),
            UpdatePatterns(patterns, match_history[Head(order)], outcome_log[Head(order)]))

\* C20: concurrent learn_from_outcome calls for the same need-type:
\* capability-type key are serialized: once they have all finished,
\* success_patterns equals the result of applying the same updates one
\* after another in some order, and match_history holds every recorded
\* match exactly once.
C20_ConcurrentLearnSerialized ==
    (\A t \in Threads : threads[t].pc = "idle") /\ match_history # <<>> =>
        /\ \E order \in Orderings(1..Len(match_history)) :
              success_patterns = SequentialPatterns(order, <<>>)
        /\ Len(outcome_log) = Len(match_history)

-----------------------------------------------------------------------------
(* Indexing concurrent with retrieval *)

\* how often a posting occurs in a posting list
Occurrences(postings, posting) ==
    Cardinality({i \in 1..Len(postings) : postings[i] = posting})

\* C21: while index_user_profile is running, a concurrent find_matches
\* never observes a partially written capability: for each capability,
\* either all of its index postings (type key, every tag key, every
\* name-token key longer than 3 characters) are visible to the reader or
\* none of them is.
C21_NoPartialCapability ==
    last_op = "find_matches" =>
        \A p \in Profiles, c \in AllCapabilities :
            \A i, j \in 1..Len(IndexKeys(c)) :
                Occurrences(IndexGet(capability_index, IndexKeys(c)[i]), <<p, c>>)
                  = Occurrences(IndexGet(capability_index, IndexKeys(c)[j]), <<p, c>>)

-----------------------------------------------------------------------------
(* Properties of the scorer *)

\* C22: the confidence of a scored Match is the mean of four factors in
\* which the evidence-quality factor is 0.9 whenever the evidence list of
\* the Match, as returned to the caller, is non-empty and 0.5 only when it
\* is empty.
C22_ConfidenceUsesReturnedEvidence ==
    engine = "CapabilityMatcher" /\ last_op = "_score_match" =>
        \A i \in 1..Len(last_call.scored) :
            LET m == last_call.scored[i]
            IN  m.confidence =
                   ( m.match_score
                   + (IF m.evidence # <<>> THEN 9000 ELSE 5000)
                   + 8000
                   + (IF match_history # <<>> THEN 8000 ELSE 5000) ) \div 4

\* C23: complementarity is the neutral value 0.5 whenever either of the two
\* profiles has zero capabilities, including the case where exactly one
\* profile is empty and the other is not.
C23_NeutralWhenEitherEmpty ==
    last_op = "_compute_complementarity"
       /\ (last_call.user1_caps = {} \/ last_call.user2_caps = {})
       => last_call.complementarity = 5000

-----------------------------------------------------------------------------
(* Properties of learn_from_outcome *)

\* C24: learn_from_outcome(match, success) appends the match to
\* match_history and updates success_patterns only at the key
\* need.type:capability.type: the first observation for a key sets it to
\* new (match.match_score if success, else 0.0), every later observation
\* sets it to 0.3*new + 0.7*old, and all other keys are left unchanged.
C24_LearnUpdatesOneKey ==
    [][last_op' = "learn_from_outcome" =>
         /\ Len(match_history') = Len(match_history) + 1
         /\ SubSeq(match_history', 1, Len(match_history)) = match_history
         /\ LET m == match_history'[Len(match_history')]
                success == outcome_log'[Len(outcome_log')]
                key == Need[m.need].type \o ":" \o Capability[m.capability].type
                new == IF success THEN m.match_score ELSE 0
            IN  /\ DOMAIN success_patterns' = DOMAIN success_patterns \cup {key}
                /\ success_patterns'[key] =
                      IF key \in DOMAIN success_patterns
                      THEN (3000 * new) \div ONE + (7000 * success_patterns[key]) \div ONE
                      ELSE new
                /\ \A k \in DOMAIN success_patterns \ {key} :
                      success_patterns'[k] = success_patterns[k]]_vars

\* an outcome was recorded for a key that had a value, next to another key
C24_Witness ==
    /\ last_op = "learn_from_outcome"
    /\ Cardinality(DOMAIN success_patterns) >= 2
    /\ Len(match_history) >= 3
    /\ \E i, j \in 1..Len(match_history) :
          /\ i < j
          /\ PatternKey(match_history[i]) = PatternKey(match_history[j])
          /\ j = Len(match_history)

-----------------------------------------------------------------------------
(* Properties of the historical boost *)

\* the recorded matches with the type pair of need n and capability c
SimilarRecorded(n, c) ==
    SelectSeq(match_history,
              LAMBDA m : /\ Need[m.need].type = Need[n].type
                         /\ Capability[m.capability].type = Capability[c].type)

\* C25: after any sequence of find_matches and learn_from_outcome calls,
\* the historical boost used in scoring is 0 when no recorded match has the
\* same (need.type, capability.type) as the pair being scored, and
\* otherwise equals (average past match_score - 0.5) * 0.2 and lies within
\* [-0.1, +0.1].
C25_BoostBounded ==
    engine = "CapabilityMatcher" /\ last_op = "find_matches" =>
        \A i \in 1..Len(last_call.scored) :
            LET m == last_call.scored[i]
                boost == m.provenance[4].output
                similar == SimilarRecorded(m.need, m.capability)
            IN  /\ m.provenance[4].operation = "historical_learning"
                /\ IF similar = <<>> THEN boost = 0
                   ELSE /\ boost = ((SumScores(similar) \div Len(similar) - 5000) * 2000) \div ONE
                        /\ 0 - 1000 <= boost
                        /\ boost <= 1000

-----------------------------------------------------------------------------
(* Properties of the provenance of scoring *)

\* the operations of the steps of a provenance graph, in order
Operations(provenance) == [i \in 1..Len(provenance) |-> provenance[i].operation]

\* C26: every Match that find_matches scores owns a provenance graph with
\* one step per sub-score, appended in the fixed order similarity,
\* complementarity, feasibility, historical boost (the SemanticMatcher has
\* no historical boost); no sub-score is computed without a recorded step.
C26_OneStepPerSubScore ==
    last_op = "find_matches" =>
        \A i \in 1..Len(last_call.scored) :
            LET ops == Operations(last_call.scored[i].provenance)
            IN  IF engine = "CapabilityMatcher"
                THEN ops = <<"semantic_similarity", "complementarity_analysis",
                             "feasibility_assessment", "historical_learning">>
                ELSE /\ Len(ops) = 3
                     /\ ops[1] = "semantic_similarity"

\* a sequence without its k-th element
RemoveAt(s, k) == SubSeq(s, 1, k - 1) \o SubSeq(s, k + 1, Len(s))

\* C27: the outcome flag reaches scoring: a recorded
\* learn_from_outcome(match, success=False) for a type pair never makes the
\* historical boost, and hence the match_score, of a later scoring for that
\* pair larger than it would be had that outcome not been recorded.
C27_FailureNeverRaisesBoost ==
    engine = "CapabilityMatcher" /\ last_op = "find_matches" =>
        \A i \in 1..Len(last_call.scored), k \in 1..Len(match_history) :
            LET m == last_call.scored[i]
                cand == last_call.candidates[i]
                without == score_match(config, RemoveAt(match_history, k), m.need,
                                       last_call.need_user_profile, cand[2], cand[1])
            IN  ~outcome_log[k] =>
                   /\ m.provenance[4].output <= without.provenance[4].output
                   /\ m.match_score <= without.match_score

-----------------------------------------------------------------------------
(* Frame of find_matches and of the batch matcher *)

\* C28: find_matches is read-only on shared state: for any need and
\* requester, including needs whose type, tags or tokens are not index
\* keys, the capability index (its key set and every posting list),
\* match_history and success_patterns are identical before and after.
C28_FindMatchesReadOnly ==
    [][engine = "CapabilityMatcher" /\ last_op' = "find_matches" =>
         /\ DOMAIN capability_index' = DOMAIN capability_index
         /\ capability_index' = capability_index
         /\ match_history' = match_history
         /\ success_patterns' = success_patterns]_vars

\* find_matches returned for a need, one of whose lookup keys is not a key
\* of the non-empty index
C28_Witness ==
    /\ engine = "CapabilityMatcher"
    /\ last_op = "find_matches"
    /\ capability_index # <<>>
    /\ \E k \in 1..Len(QueryKeys(last_call.need, last_call.tag_order)) :
          QueryKeys(last_call.need, last_call.tag_order)[k] \notin DOMAIN capability_index

\* C29: BatchMatcher.find_optimal_matching does not change the matcher's
\* capability index: the set of candidates that a later find_matches call
\* retrieves is the same whether or not find_optimal_matching was called
\* before, for any needs and capabilities lists.
C29_BatchLeavesIndex ==
    [][last_op' = "find_optimal_matching" =>
         /\ capability_index' = capability_index
         /\ \A n \in Needs, requester \in Profiles :
               \A tag_order \in Orderings(Need[n].tags) :
                  Range(retrieve_candidates(capability_index', n, requester, tag_order))
                    = Range(retrieve_candidates(capability_index, n, requester, tag_order))]_vars

-----------------------------------------------------------------------------
(* AuthenticationSystem: register_user, login, verify_session, logout and   *)
(* require_reauthentication called in any order while time passes           *)

Emails == {"alice@example.org", "bob@example.org"}

RegisterPasswords == {"correct horse"}

LoginPasswords == {"correct horse", "battery staple"}

\* secrets.token_bytes(32)
Salts == {"salt-1"}

\* base64.b32encode(secrets.token_bytes(20))
TotpSecrets == {"JBSWY3DPEHPK3PXP"}

\* f"user_{secrets.token_urlsafe(16)}": the tokens in the order they are drawn
UserIds == <<"user_1", "user_2">>

\* secrets.token_urlsafe(32): tokens are numbered, and the one drawn is the
\* first that names no live session
SessionIds == 1..MaxSessions

FreshSessionId == CHOOSE s \in SessionIds \ DOMAIN sessions :
                     \A other \in SessionIds \ DOMAIN sessions : s <= other

\* the number of login attempts recorded for rate limiting
RECURSIVE TotalAttempts(_, _)
TotalAttempts(attempts, emails) ==
    IF emails = {} THEN 0
    ELSE LET email == CHOOSE e \in emails : TRUE
         IN Len(attempts[email]) + TotalAttempts(attempts, emails \ {email})

\* totp_code: None, "", "123456", "12345", "12345x"
TotpCodeArgs ==
    {<<>>, << <<>> >>, << <<"1", "2", "3", "4", "5", "6">> >>,
     << <<"1", "2", "3", "4", "5">> >>, << <<"1", "2", "3", "4", "5", "x">> >>}

non_auth_vars ==
    <<engine, EMBEDDINGS_AVAILABLE, config, capability_index, memory_capabilities,
      match_history, success_patterns, outcome_log, index_log, last_op, last_call,
      db, profile_cache, response, request_count, explanation, threads>>

\* datetime.utcnow() moves on by ClockStep units between calls
Tick ==
    /\ clock + ClockStep <= MaxClock
    /\ clock' = clock + ClockStep
    /\ UNCHANGED <<users, sessions, login_attempts, auth_return, non_auth_vars>>

AS_register_user(email, password, require_mfa) ==
    \E salt \in Salts, secret \in TotpSecrets :
       LET user_id == UserIds[Min(Cardinality(DOMAIN users) + 1, Len(UserIds))]
           call == register_user(users, email, password, require_mfa, salt, user_id, secret)
       IN /\ users' = call.users
          /\ auth_return' = [NoAuthCall EXCEPT !.call = "register_user",
                                               !.result = call.result]
          /\ UNCHANGED <<sessions, login_attempts, clock, non_auth_vars>>

AS_login(email, password, totp_code) ==
    /\ Cardinality(DOMAIN sessions) < MaxSessions
    /\ TotalAttempts(login_attempts, DOMAIN login_attempts) < MaxLoginAttempts
    /\ LET call == login(users, sessions, login_attempts, clock, email, password,
                            totp_code, FreshSessionId)
          IN /\ users' = call.users
             /\ sessions' = call.sessions
             /\ login_attempts' = call.login_attempts
             /\ auth_return' = [NoAuthCall EXCEPT !.call = "login",
                                                  !.session_id = call.result,
                                                  !.result = call.result,
                                                  !.totp_checked = call.totp_checked]
             /\ UNCHANGED <<clock, non_auth_vars>>

AS_verify_session(session_id) ==
    LET call == verify_session(users, sessions, clock, session_id)
    IN /\ sessions' = call.sessions
       /\ auth_return' = [NoAuthCall EXCEPT !.call = "verify_session",
                                            !.session_id = <<session_id>>,
                                            !.result = call.result]
       /\ UNCHANGED <<users, login_attempts, clock, non_auth_vars>>

AS_logout(session_id) ==
    /\ sessions' = logout(sessions, session_id)
    /\ auth_return' = [NoAuthCall EXCEPT !.call = "logout",
                                         !.session_id = <<session_id>>]
    /\ UNCHANGED <<users, login_attempts, clock, non_auth_vars>>

AS_require_reauthentication(session_id) ==
    /\ auth_return' = [NoAuthCall EXCEPT
                         !.call = "require_reauthentication",
                         !.session_id = <<session_id>>,
                         !.result = <<require_reauthentication(sessions, clock, session_id)>>]
    /\ UNCHANGED <<users, sessions, login_attempts, clock, non_auth_vars>>

RegisterStep ==
    \E email \in Emails, password \in RegisterPasswords, require_mfa \in BOOLEAN :
        AS_register_user(email, password, require_mfa)

LoginStep ==
    \E email \in Emails, password \in LoginPasswords, totp_code \in TotpCodeArgs :
        AS_login(email, password, totp_code)

VerifySessionStep == \E session_id \in SessionIds : AS_verify_session(session_id)

LogoutStep == \E session_id \in SessionIds : AS_logout(session_id)

ReauthenticationStep ==
    \E session_id \in SessionIds : AS_require_reauthentication(session_id)

NextAuth ==
    \/ Tick
    \/ RegisterStep
    \/ LoginStep
    \/ VerifySessionStep
    \/ LogoutStep
    \/ ReauthenticationStep

InitAuth == InitLearn /\ config = DefaultMatchingConfig

SpecAuth == InitAuth /\ [][NextAuth]_vars

\* C30: a session is mfa_verified, and require_reauthentication returns
\* False for it, only if the login that created it checked a TOTP code
\* against the user's TOTP secret; no session of a user without a TOTP
\* secret is ever mfa_verified.
C30_MfaOnlyAfterTotpCheck ==
    /\ (auth_return.call = "login" /\ auth_return.result # <<>>) =>
          LET session_id == auth_return.result[1]
          IN (sessions[session_id].mfa_verified
                \/ ~require_reauthentication(sessions, clock, session_id))
             => auth_return.totp_checked
    /\ \A session_id \in DOMAIN sessions :
          (sessions[session_id].mfa_verified
             \/ ~require_reauthentication(sessions, clock, session_id))
          => users[sessions[session_id].user_id].totp_secret # <<>>

=============================================================================
